---- MODULE Spec2Model ----
(***************************************************************************)
(* Model of the real-time core of the Yapper chat server:                  *)
(*   server/socket/socketHandlers.js  (registry, presence, message relay,  *)
(*                                      read receipts, call signaling)     *)
(*   server/routes/messages.js        (POST /api/messages, PUT .../read)   *)
(*   server/models/Message.js         (markAsRead)                         *)
(*   the /api/friends routes          (POST /api/friends/block/:userId)    *)
(*                                                                         *)
(* An async handler is split at the awaits that another handler can        *)
(* observe; the part of a handler between two awaits is one atomic step    *)
(* (Node runs handlers on a single thread).  A handler suspended at an     *)
(* await is a record in `tasks`.                                           *)
(***************************************************************************)
EXTENDS Integers, Sequences, FiniteSets, TLC

(* ---------------------------------------------------------------------- *)
(* Bounds: connections opened, inbound events and HTTP requests in a run    *)
(* ---------------------------------------------------------------------- *)
MaxSockets == 3
MaxEvents == 4
MaxHttp == 1

(* ---------------------------------------------------------------------- *)
(* Universe                                                                *)
(* ---------------------------------------------------------------------- *)
Users == {"A", "B", "C"}
UserOrder == <<"A", "B", "C">>
\* an id that no user document carries (User.findById returns null)
NoUser == "nobody"
\* a message id that no message document carries
NoMessage == 0
SocketIds == 1..MaxSockets
\* the socket field of an inbound HTTP request
NoSocket == 0
\* an enumeration that lets one more value through
validStatusesLoose == {"online", "offline", "away", "busy", "invisible"}
\* ['online', 'offline', 'away', 'busy'].includes(status)
validStatuses == {"online", "offline", "away", "busy"}
\* a status value outside the enumeration, as a client may send it
BadStatus == "invisible"

VARIABLES
  sockets,         \* socket id -> [st, userId, friends, blocked]: the server-side socket objects
  connectedUsers,  \* the Map connectedUsers, as a set of entries [key, socketId, status]
  videoCallRooms,  \* the Map videoCallRooms
  crashed,         \* the server process has ended on an uncaught exception
  clients,         \* socket id -> the state of the browser client behind that connection
  dbFriends,       \* User.friends per user, as persisted
  dbBlocked,       \* User.blockedUsers per user, as persisted
  dbRequests,      \* User.friendRequests per user, as persisted: [from, status] in order
  dbStatus,        \* User.status per user, as persisted
  messages,        \* the Message collection, in creation order
  tasks,           \* handlers suspended at an await
  inbound,         \* every inbound event / request, in arrival order
  emitted,         \* every outbound socket event, in emission order
  responses        \* every HTTP response, in order

vars == <<sockets, connectedUsers, videoCallRooms, crashed, clients, dbFriends, dbBlocked, dbRequests,
          dbStatus, messages, tasks, inbound, emitted, responses>>

dbVars == <<dbFriends, dbBlocked, dbRequests, dbStatus, messages>>

(* ---------------------------------------------------------------------- *)
(* The Map connectedUsers                                                  *)
(* ---------------------------------------------------------------------- *)
MapHas(m, k) == \E e \in m : e.key = k

MapGet(m, k) == CHOOSE e \in m : e.key = k

MapDelete(m, k) == {e \in m : e.key # k}

\* a Map.set that would add a second entry under an existing key
MapSetNoReplace(m, k, sid, st) ==
  m \cup {[key |-> k, socketId |-> sid, status |-> st]}

MapSet(m, k, sid, st) ==
  {e \in m : e.key # k} \cup {[key |-> k, socketId |-> sid, status |-> st]}

(* ---------------------------------------------------------------------- *)
(* Sockets, logs                                                           *)
(* ---------------------------------------------------------------------- *)
FreeSocket == [st |-> "free", userId |-> NoUser, friends |-> {}, blocked |-> {}]

\* activeCall === null
NoActiveCall == [type |-> "none", participant |-> NoUser, status |-> "none"]

\* a client as SocketProvider creates it: incomingCall and activeCall null;
\* toasts are the incoming-call toasts on screen (by event), sent what the client has
\* emitted, seen how far into the outbound events it has listened
NewClient ==
  [activeCall |-> NoActiveCall, incomingCall |-> NoUser, toasts |-> {},
   sent |-> <<>>, seen |-> 0]

IsOpen(s) == sockets[s].st = "open"

OpenSockets == {s \in SocketIds : IsOpen(s)}

\* socket ids are handed out in increasing order
NextSocket == Cardinality({s \in SocketIds : sockets[s].st # "free"}) + 1

Ev(ev, to, from, req, arg) ==
  [ev |-> ev, to |-> to, from |-> from, req |-> req, arg |-> arg]

\* an inbound event: who sent it, on which socket (NoSocket for an HTTP request),
\* whom it names, its payload, and for a message send what the Authorization
\* Gate is given on arrival: friend (the receiver is in the sender's friend set
\* as the handler sees it) and blocked (either side has blocked the other)
In(kind, sock, user, rcv, arg, friend, blocked) ==
  [kind |-> kind, sock |-> sock, user |-> user, rcv |-> rcv, arg |-> arg,
   friend |-> friend, blocked |-> blocked]

NextReq == Len(inbound) + 1

CanReceive == ~crashed /\ Len(inbound) < MaxEvents

\* HTTP requests received so far
HttpRequests == {r \in 1..Len(inbound) : inbound[r].sock = NoSocket}

CanRequest == CanReceive /\ Cardinality(HttpRequests) < MaxHttp

RECURSIVE SeqOfSet(_)
\* the members of a set of users, in UserOrder
SeqOfSet(S) ==
  IF S = {} THEN <<>>
  ELSE LET i == CHOOSE i \in 1..Len(UserOrder) :
                  /\ UserOrder[i] \in S
                  /\ \A j \in 1..Len(UserOrder) : UserOrder[j] \in S => i <= j
       IN <<UserOrder[i]>> \o SeqOfSet(S \ {UserOrder[i]})

RECURSIVE FanOutSeq(_, _, _, _, _)
\* friends.forEach(friendId => { friendSocket = connectedUsers.get(friendId);
\*                               if (friendSocket) io.to(...).emit(...) })
FanOutSeq(fs, reg, uid, status, req) ==
  IF fs = <<>> THEN <<>>
  ELSE LET f == Head(fs)
           rest == FanOutSeq(Tail(fs), reg, uid, status, req)
       IN IF MapHas(reg, f)
          THEN <<Ev("friend_status_change", MapGet(reg, f).socketId, uid, req, status)>>
               \o rest
          ELSE rest

FanOut(friends, reg, uid, status, req) ==
  FanOutSeq(SeqOfSet(friends), reg, uid, status, req)

(* ---------------------------------------------------------------------- *)
(* Initial state: the server has just started; the database holds the     *)
(* users A, B, C, the friendship A - B, one unread message A -> B and a    *)
(* pending friend request from C to A.                                     *)
(* ---------------------------------------------------------------------- *)
InitFriends == [u \in Users |-> IF u = "A" THEN {"B"} ELSE IF u = "B" THEN {"A"} ELSE {}]

\* C has asked A to be friends
InitRequests ==
  [u \in Users |-> IF u = "A" THEN <<[from |-> "C", status |-> "pending"]>> ELSE <<>>]

NoDate == "null"

\* what new Date() gives
SomeDate == "date"

InitMessages ==
  <<[sender |-> "A", receiver |-> "B", isRead |-> FALSE, readAt |-> NoDate,
     isEdited |-> FALSE, reactions |-> <<>>, deletedFor |-> {}, req |-> 0]>>

Init ==
  /\ sockets = [s \in SocketIds |-> FreeSocket]
  /\ connectedUsers = {}
  /\ videoCallRooms = {}
  /\ crashed = FALSE
  /\ clients = [s \in SocketIds |-> NewClient]
  /\ dbFriends = InitFriends
  /\ dbBlocked = [u \in Users |-> {}]
  /\ dbRequests = InitRequests
  /\ dbStatus = [u \in Users |-> "offline"]
  /\ messages = InitMessages
  /\ tasks = {}
  /\ inbound = <<>>
  /\ emitted = <<>>
  /\ responses = <<>>

Task(req, kind, sock, pc, arg) ==
  [req |-> req, kind |-> kind, sock |-> sock, pc |-> pc, arg |-> arg]

(* ---------------------------------------------------------------------- *)
(* io.use(auth) + io.on('connection')                                      *)
(* ---------------------------------------------------------------------- *)
Connect(u) ==
  /\ CanReceive
  /\ NextSocket \in SocketIds
  /\ LET s == NextSocket
         req == NextReq
     IN /\ sockets' = [sockets EXCEPT ![s] =
                         [st |-> "open", userId |-> u,
                          friends |-> dbFriends[u], blocked |-> dbBlocked[u]]]
        /\ connectedUsers' = MapSet(connectedUsers, u, s, "online")
        \* User.findByIdAndUpdate(...).exec() is not awaited
        /\ tasks' = tasks \cup {Task(req, "connect", s, "update", "online")}
        /\ inbound' = Append(inbound, In("connection", s, u, NoUser, "online", FALSE, FALSE))
        /\ emitted' = emitted \o FanOut(dbFriends[u], connectedUsers', u, "online", req)
  /\ UNCHANGED <<videoCallRooms, crashed, clients, dbVars, responses>>

\* the un-awaited status update of the connection handler lands (or fails)
ConnectDbUpdate(t, ok) ==
  /\ t \in tasks
  /\ t.kind = "connect"
  /\ tasks' = tasks \ {t}
  /\ dbStatus' = IF ok THEN [dbStatus EXCEPT ![sockets[t.sock].userId] = "online"]
                 ELSE dbStatus
  /\ UNCHANGED <<sockets, connectedUsers, videoCallRooms, crashed, clients, dbFriends, dbBlocked, dbRequests,
                 messages, inbound, emitted, responses>>

(* ---------------------------------------------------------------------- *)
(* socket.on('status_change')                                              *)
(* ---------------------------------------------------------------------- *)
StatusChange(s, status) ==
  /\ CanReceive
  /\ IsOpen(s)
  /\ inbound' = Append(inbound, In("status_change", s, sockets[s].userId, NoUser, status, FALSE, FALSE))
  /\ tasks' = IF status \in validStatuses
              THEN tasks \cup {Task(NextReq, "status_change", s, "update", status)}
              ELSE tasks
  /\ UNCHANGED <<sockets, connectedUsers, videoCallRooms, crashed, clients, dbVars, emitted, responses>>

\* await User.findByIdAndUpdate(...) resolves (ok) or rejects (caught, logged)
StatusChangeFinish(t, ok) ==
  /\ t \in tasks
  /\ t.kind = "status_change"
  /\ tasks' = tasks \ {t}
  /\ LET u == sockets[t.sock].userId
     IN IF ok
        THEN /\ dbStatus' = [dbStatus EXCEPT ![u] = t.arg]
             /\ connectedUsers' =
                  IF MapHas(connectedUsers, u)
                  THEN MapSet(connectedUsers, u, MapGet(connectedUsers, u).socketId, t.arg)
                  ELSE connectedUsers
             /\ emitted' = emitted \o
                  FanOut(sockets[t.sock].friends, connectedUsers', u, t.arg, t.req)
        ELSE UNCHANGED <<dbStatus, connectedUsers, emitted>>
  /\ UNCHANGED <<sockets, videoCallRooms, crashed, clients, dbFriends, dbBlocked, dbRequests, messages,
                 inbound, responses>>

(* ---------------------------------------------------------------------- *)
(* socket.on('disconnect')                                                 *)
(* ---------------------------------------------------------------------- *)
Disconnect(s) ==
  /\ CanReceive
  /\ IsOpen(s)
  /\ sockets' = [sockets EXCEPT ![s].st = "closed"]
  /\ connectedUsers' = MapDelete(connectedUsers, sockets[s].userId)
  /\ tasks' = tasks \cup {Task(NextReq, "disconnect", s, "update", "offline")}
  /\ inbound' = Append(inbound, In("disconnect", s, sockets[s].userId, NoUser, "offline", FALSE, FALSE))
  /\ UNCHANGED <<videoCallRooms, crashed, clients, dbVars, emitted, responses>>

\* await User.findByIdAndUpdate(...) resolves (ok) or rejects (the handler
\* has no try/catch: the rest of the handler does not run)
DisconnectFinish(t, ok) ==
  /\ t \in tasks
  /\ t.kind = "disconnect"
  /\ tasks' = tasks \ {t}
  /\ LET u == sockets[t.sock].userId
     IN IF ok
        THEN /\ dbStatus' = [dbStatus EXCEPT ![u] = "offline"]
             /\ emitted' = emitted \o
                  FanOut(sockets[t.sock].friends, connectedUsers, u, "offline", t.req)
        ELSE UNCHANGED <<dbStatus, emitted>>
  /\ UNCHANGED <<sockets, connectedUsers, videoCallRooms, crashed, clients, dbFriends, dbBlocked, dbRequests,
                 messages, inbound, responses>>

(* ---------------------------------------------------------------------- *)
(* POST /api/friends/block/:userId, DELETE /api/friends/block/:userId      *)
(* ---------------------------------------------------------------------- *)
Res(req, user, code, msg) == [req |-> req, user |-> user, code |-> code, msg |-> msg]

\* friendRequests.filter(request => request.from.toString() !== userId)
NotFrom(requests, u) ==
  LET keep(r) == r.from # u IN SelectSeq(requests, keep)

BlockOutcomes == {"ok", "user_save_fails", "target_save_fails", "both_saves_fail"}

\* await Promise.all([user.save(), targetUser.save()]): outcome says which
\* of the two saves was rejected
BlockRoute(a, b, outcome) ==
  /\ CanReceive
  /\ inbound' = Append(inbound, In("block", NoSocket, a, b, "", FALSE, FALSE))
  /\ IF a = b
     THEN /\ outcome = "ok"
          /\ responses' = Append(responses, Res(NextReq, a, "400", "Cannot block yourself"))
          /\ UNCHANGED <<dbFriends, dbBlocked, dbRequests>>
     ELSE LET userSaved == outcome \in {"ok", "target_save_fails"}
              targetSaved == outcome \in {"ok", "user_save_fails"}
          IN /\ dbBlocked' = IF userSaved THEN [dbBlocked EXCEPT ![a] = @ \cup {b}]
                             ELSE dbBlocked
             /\ dbFriends' = [x \in Users |->
                                IF x = a /\ userSaved THEN dbFriends[x] \ {b}
                                ELSE IF x = b /\ targetSaved THEN dbFriends[x] \ {a}
                                ELSE dbFriends[x]]
             /\ dbRequests' = [x \in Users |->
                                 IF x = a /\ userSaved THEN NotFrom(dbRequests[x], b)
                                 ELSE IF x = b /\ targetSaved THEN NotFrom(dbRequests[x], a)
                                 ELSE dbRequests[x]]
             /\ responses' = Append(responses,
                                    IF outcome = "ok"
                                    THEN Res(NextReq, a, "200", "User blocked successfully")
                                    ELSE Res(NextReq, a, "500", "Server error"))
  /\ UNCHANGED <<sockets, connectedUsers, videoCallRooms, crashed, clients, dbStatus, messages,
                 tasks, emitted>>

\* a block whose two saves succeed
Block(a, b) == CanRequest /\ BlockRoute(a, b, "ok")

\* user.blockedUsers = user.blockedUsers.filter(id => id.toString() !== userId);
\* await user.save()
UnblockRoute(a, b, ok) ==
  /\ CanReceive
  /\ inbound' = Append(inbound, In("unblock", NoSocket, a, b, "", FALSE, FALSE))
  /\ dbBlocked' = IF ok THEN [dbBlocked EXCEPT ![a] = @ \ {b}] ELSE dbBlocked
  /\ responses' = Append(responses,
                         IF ok THEN Res(NextReq, a, "200", "User unblocked successfully")
                         ELSE Res(NextReq, a, "500", "Server error"))
  /\ UNCHANGED <<sockets, connectedUsers, videoCallRooms, crashed, clients, dbFriends,
                 dbRequests, dbStatus, messages, tasks, emitted>>

(* ---------------------------------------------------------------------- *)
(* PUT /api/friends/request/:requestId, DELETE /api/friends/:friendId      *)
(* Each request runs to completion; outcome says which save was rejected.  *)
(* ---------------------------------------------------------------------- *)
\* targetUser.friendRequests.find(request => request.from === req.user._id):
\* the first request from u among the target's, if any
FirstFrom(requests, u) ==
  LET idx == {i \in 1..Len(requests) : requests[i].from = u}
  IN IF idx = {} THEN 0 ELSE CHOOSE i \in idx : \A j \in idx : i <= j

\* POST /api/friends/request up to await targetUser.save(): the checks run on
\* req.user and on the target as loaded
SendRequest(u, userId) ==
  /\ CanReceive
  /\ inbound' = Append(inbound, In("friend_request", NoSocket, u, userId, "", FALSE, FALSE))
  /\ LET existing == FirstFrom(dbRequests[userId], u)
         refusal ==
           IF userId = u THEN "Cannot send friend request to yourself"
           ELSE IF userId \in dbFriends[u] THEN "Already friends with this user"
           ELSE IF existing # 0 /\ dbRequests[userId][existing].status = "pending"
           THEN "Friend request already pending"
           ELSE IF existing # 0 /\ dbRequests[userId][existing].status = "accepted"
           THEN "Already friends with this user"
           ELSE ""
     IN IF refusal # ""
        THEN /\ responses' = Append(responses, Res(NextReq, u, "400", refusal))
             /\ tasks' = tasks
        ELSE /\ responses' = responses
             /\ tasks' = tasks \cup {Task(NextReq, "friend_request", NoSocket, "save", userId)}
  /\ UNCHANGED <<sockets, connectedUsers, videoCallRooms, crashed, clients, dbVars, emitted>>

\* await targetUser.save() resolves (the pushed request is added to the
\* stored array) or rejects (500); then new_friend_request goes to the
\* target's connection, if registered, and the route answers 200
SendRequestSave(t, ok) ==
  /\ t \in tasks
  /\ t.kind = "friend_request"
  /\ tasks' = tasks \ {t}
  /\ LET u == inbound[t.req].user
     IN IF ok
        THEN /\ dbRequests' = [dbRequests EXCEPT ![t.arg] =
                                 Append(@, [from |-> u, status |-> "pending"])]
             /\ emitted' = IF MapHas(connectedUsers, t.arg)
                           THEN Append(emitted,
                                       Ev("new_friend_request",
                                          MapGet(connectedUsers, t.arg).socketId, u, t.req, ""))
                           ELSE emitted
             /\ responses' = Append(responses,
                                    Res(t.req, u, "200", "Friend request sent successfully"))
        ELSE /\ UNCHANGED <<dbRequests, emitted>>
             /\ responses' = Append(responses, Res(t.req, u, "500", "Server error"))
  /\ UNCHANGED <<sockets, connectedUsers, videoCallRooms, crashed, clients, dbFriends, dbBlocked,
                 dbStatus, messages, inbound>>

RespondOutcomes == {"ok", "requester_save_fails", "user_save_fails"}

\* requestId names the i-th entry of the user's friendRequests, or none
RespondRoute(u, i, action, outcome) ==
  /\ CanReceive
  /\ inbound' = Append(inbound, In("respond_request", NoSocket, u, NoUser, action, FALSE, FALSE))
  /\ IF action \notin {"accept", "reject"}
     THEN /\ outcome = "ok"
          /\ responses' = Append(responses, Res(NextReq, u, "400", "Invalid action"))
          /\ UNCHANGED <<dbFriends, dbRequests>>
     ELSE IF i \notin 1..Len(dbRequests[u])
     THEN /\ outcome = "ok"
          /\ responses' = Append(responses, Res(NextReq, u, "404", "Friend request not found"))
          /\ UNCHANGED <<dbFriends, dbRequests>>
     ELSE IF dbRequests[u][i].status # "pending"
     THEN /\ outcome = "ok"
          /\ responses' = Append(responses,
                                Res(NextReq, u, "400", "Friend request already processed"))
          /\ UNCHANGED <<dbFriends, dbRequests>>
     ELSE LET requesterId == dbRequests[u][i].from
          IN IF action = "accept"
             THEN \* await requester.save(); then await user.save()
                  /\ dbFriends' =
                       IF outcome = "ok"
                       THEN [dbFriends EXCEPT ![u] = @ \cup {requesterId},
                                              ![requesterId] = @ \cup {u}]
                       ELSE IF outcome = "user_save_fails"
                       THEN [dbFriends EXCEPT ![requesterId] = @ \cup {u}]
                       ELSE dbFriends
                  /\ dbRequests' =
                       IF outcome = "ok"
                       THEN [dbRequests EXCEPT ![u][i].status = "accepted"]
                       ELSE dbRequests
                  /\ responses' = Append(responses,
                                    IF outcome = "ok"
                                    THEN Res(NextReq, u, "200", "Friend request accepted successfully")
                                    ELSE Res(NextReq, u, "500", "Server error"))
             ELSE \* only await user.save()
                  /\ outcome # "requester_save_fails"
                  /\ dbFriends' = dbFriends
                  /\ dbRequests' =
                       IF outcome = "ok"
                       THEN [dbRequests EXCEPT ![u][i].status = "rejected"]
                       ELSE dbRequests
                  /\ responses' = Append(responses,
                                    IF outcome = "ok"
                                    THEN Res(NextReq, u, "200", "Friend request rejected successfully")
                                    ELSE Res(NextReq, u, "500", "Server error"))
  /\ UNCHANGED <<sockets, connectedUsers, videoCallRooms, crashed, clients, dbBlocked,
                 dbStatus, messages, tasks, emitted>>

RespondRequest(u, i, action, outcome) == CanRequest /\ RespondRoute(u, i, action, outcome)

RemoveOutcomes == {"ok", "user_save_fails", "friend_save_fails", "both_saves_fail"}

\* await Promise.all([user.save(), friend.save()])
RemoveRoute(u, friendId, outcome) ==
  /\ CanReceive
  /\ inbound' = Append(inbound, In("remove_friend", NoSocket, u, friendId, "", FALSE, FALSE))
  /\ IF friendId \notin Users
     THEN /\ outcome = "ok"
          /\ responses' = Append(responses, Res(NextReq, u, "404", "Friend not found"))
          /\ dbFriends' = dbFriends
     ELSE /\ dbFriends' =
               [x \in Users |->
                  IF x = u /\ outcome \in {"ok", "friend_save_fails"}
                  THEN dbFriends[x] \ {friendId}
                  ELSE IF x = friendId /\ outcome \in {"ok", "user_save_fails"}
                  THEN dbFriends[x] \ {u}
                  ELSE dbFriends[x]]
          /\ responses' = Append(responses,
                            IF outcome = "ok"
                            THEN Res(NextReq, u, "200", "Friend removed successfully")
                            ELSE Res(NextReq, u, "500", "Server error"))
  /\ UNCHANGED <<sockets, connectedUsers, videoCallRooms, crashed, clients, dbBlocked,
                 dbRequests, dbStatus, messages, tasks, emitted>>

RemoveFriend(u, friendId, outcome) == CanRequest /\ RemoveRoute(u, friendId, outcome)

(* ---------------------------------------------------------------------- *)
(* socket.on('send_message')                                               *)
(* The payload carries receiverId and content; replyTo is absent.          *)
(* ---------------------------------------------------------------------- *)
\* either user has the other in blockedUsers, as persisted
BlockedEitherWay(a, b) ==
  /\ a \in Users
  /\ b \in Users
  /\ (b \in dbBlocked[a] \/ a \in dbBlocked[b])

\* a friend check that lets every existing receiver through
IsFriendOfAnyone(s, receiverId) == receiverId \in Users

\* a check against the friend list as persisted at the time of the send
IsFriendOfLive(s, receiverId) == receiverId \in dbFriends[sockets[s].userId]

\* socket.user.friends.includes(receiverId)
IsFriendOf(s, receiverId) == receiverId \in sockets[s].friends

Message(sender, receiver, req) ==
  [sender |-> sender, receiver |-> receiver, isRead |-> FALSE, readAt |-> NoDate,
   isEdited |-> FALSE, reactions |-> <<>>, deletedFor |-> {}, req |-> req]

\* the event arrives; User.findById(receiverId) resolves; the friend check runs
SendMessage(s, receiverId) ==
  /\ CanReceive
  /\ IsOpen(s)
  /\ LET u == sockets[s].userId
         req == NextReq
     IN /\ inbound' = Append(inbound,
                        In("send_message", s, u, receiverId, "hi",
                           receiverId \in sockets[s].friends,
                           receiverId \in sockets[s].blocked
                             \/ BlockedEitherWay(u, receiverId)))
        /\ IF receiverId \notin Users
           THEN /\ emitted' = Append(emitted, Ev("error", s, u, req, "Receiver not found"))
                /\ tasks' = tasks
           ELSE IF ~IsFriendOf(s, receiverId)
           THEN /\ emitted' = Append(emitted,
                                Ev("error", s, u, req, "Can only send messages to friends"))
                /\ tasks' = tasks
           ELSE /\ emitted' = emitted
                /\ tasks' = tasks \cup {Task(req, "send_message", s, "save", receiverId)}
  /\ UNCHANGED <<sockets, connectedUsers, videoCallRooms, crashed, clients, dbVars, responses>>

\* await message.save() resolves (ok) or rejects (catch: error event)
SendSave(t, ok) ==
  /\ t \in tasks
  /\ t.kind = "send_message"
  /\ t.pc = "save"
  /\ IF ok
     THEN /\ messages' = Append(messages, Message(sockets[t.sock].userId, t.arg, t.req))
          /\ tasks' = (tasks \ {t}) \cup {[t EXCEPT !.pc = "populate"]}
          /\ emitted' = emitted
     ELSE /\ messages' = messages
          /\ tasks' = tasks \ {t}
          /\ emitted' = Append(emitted, Ev("error", t.sock, sockets[t.sock].userId, t.req,
                                           "Failed to send message"))
  /\ UNCHANGED <<sockets, connectedUsers, videoCallRooms, crashed, clients, dbFriends, dbBlocked, dbRequests,
                 dbStatus, inbound, responses>>

\* the id of the message a send_message request persisted
MessageOf(req) == CHOOSE i \in 1..Len(messages) : messages[i].req = req

\* a delivery that pushes new_message whether or not the receiver is registered
ReceiverEventsAlways(t) ==
  <<Ev("new_message", IF MapHas(connectedUsers, t.arg)
                      THEN MapGet(connectedUsers, t.arg).socketId ELSE NoSocket,
       sockets[t.sock].userId, t.req, MessageOf(t.req))>>

\* a delivery that pushes new_message to every registered connection
ReceiverEventsToAll(t) ==
  LET us == SeqOfSet({x.key : x \in connectedUsers})
  IN [i \in 1..Len(us) |->
        Ev("new_message", MapGet(connectedUsers, us[i]).socketId,
           sockets[t.sock].userId, t.req, MessageOf(t.req))]

\* receiverSocket = connectedUsers.get(receiverId); if (receiverSocket) emit new_message
ReceiverEvents(t) ==
  IF MapHas(connectedUsers, t.arg)
  THEN <<Ev("new_message", MapGet(connectedUsers, t.arg).socketId,
            sockets[t.sock].userId, t.req, MessageOf(t.req))>>
  ELSE <<>>

\* the awaited populate calls resolve (ok) or reject (catch: error event);
\* then the receiver is resolved and the events are emitted
SendDeliver(t, ok) ==
  /\ t \in tasks
  /\ t.kind = "send_message"
  /\ t.pc = "populate"
  /\ tasks' = tasks \ {t}
  /\ emitted' =
       IF ok
       THEN emitted \o ReceiverEvents(t)
              \o <<Ev("message_sent", t.sock, sockets[t.sock].userId, t.req, MessageOf(t.req))>>
       ELSE Append(emitted, Ev("error", t.sock, sockets[t.sock].userId, t.req,
                               "Failed to send message"))
  /\ UNCHANGED <<sockets, connectedUsers, videoCallRooms, crashed, clients, dbVars, inbound, responses>>

(* ---------------------------------------------------------------------- *)
(* POST /api/messages  (req.user is the user document as persisted)        *)
(* ---------------------------------------------------------------------- *)
DbOutcomes == {"ok", "save_fails", "populate_fails"}

\* the route answers 404 or 403: no receiver, req.user.blockedUsers includes
\* the receiver, or req.user.friends does not
HttpDenies(u, receiverId) ==
  \/ receiverId \notin Users
  \/ receiverId \in dbBlocked[u]
  \/ receiverId \notin dbFriends[u]

HttpPostMessage(u, receiverId, outcome) ==
  /\ CanRequest
  /\ LET req == NextReq
         denied == HttpDenies(u, receiverId)
     IN /\ denied => outcome = "ok"
        /\ inbound' = Append(inbound,
                        In("post_message", NoSocket, u, receiverId, "hi",
                           receiverId \in dbFriends[u], BlockedEitherWay(u, receiverId)))
        /\ IF receiverId \notin Users
           THEN /\ responses' = Append(responses, Res(req, u, "404", "Receiver not found"))
                /\ messages' = messages
           ELSE IF receiverId \in dbBlocked[u]
           THEN /\ responses' = Append(responses,
                                  Res(req, u, "403", "Cannot send message to blocked user"))
                /\ messages' = messages
           ELSE IF receiverId \notin dbFriends[u]
           THEN /\ responses' = Append(responses,
                                  Res(req, u, "403", "Can only send messages to friends"))
                /\ messages' = messages
           ELSE /\ messages' = IF outcome = "save_fails" THEN messages
                               ELSE Append(messages, Message(u, receiverId, req))
                /\ responses' = Append(responses,
                                  IF outcome = "ok" THEN Res(req, u, "201", "")
                                  ELSE Res(req, u, "500", "Server error"))
  /\ UNCHANGED <<sockets, connectedUsers, videoCallRooms, crashed, clients, dbFriends, dbBlocked, dbRequests,
                 dbStatus, tasks, emitted>>

(* ---------------------------------------------------------------------- *)
(* socket.on('mark_read'), messageSchema.methods.markAsRead                *)
(* ---------------------------------------------------------------------- *)
MessageIds == 1..Len(messages)

\* an ownership check that also lets the message's sender through
MayMarkReadLoose(u, messageId) ==
  /\ messageId \in MessageIds
  /\ u \in {messages[messageId].receiver, messages[messageId].sender}

\* message && message.receiver.toString() === socket.userId
MayMarkRead(u, messageId) ==
  /\ messageId \in MessageIds
  /\ messages[messageId].receiver = u

\* a markAsRead whose save stores nothing
markAsReadNotSaved(msgs, messageId) == msgs

\* this.isRead = true; this.readAt = new Date(); this.save()
markAsRead(msgs, messageId) ==
  [msgs EXCEPT ![messageId].isRead = TRUE, ![messageId].readAt = SomeDate]

\* the event arrives; Message.findById(messageId) resolves; the ownership test runs
MarkRead(s, messageId) ==
  /\ CanReceive
  /\ IsOpen(s)
  /\ inbound' = Append(inbound, In("mark_read", s, sockets[s].userId, NoUser, messageId,
                                   FALSE, FALSE))
  /\ tasks' = IF MayMarkRead(sockets[s].userId, messageId)
              THEN tasks \cup {Task(NextReq, "mark_read", s, "save", messageId)}
              ELSE tasks
  /\ UNCHANGED <<sockets, connectedUsers, videoCallRooms, crashed, clients, dbVars, emitted, responses>>

\* await message.markAsRead() resolves (ok) or rejects (catch: logged);
\* then the sender is resolved and message_read is emitted
MarkReadSave(t, ok) ==
  /\ t \in tasks
  /\ t.kind = "mark_read"
  /\ tasks' = tasks \ {t}
  /\ IF ok
     THEN /\ messages' = markAsRead(messages, t.arg)
          /\ emitted' =
               IF MapHas(connectedUsers, messages[t.arg].sender)
               THEN Append(emitted,
                           Ev("message_read",
                              MapGet(connectedUsers, messages[t.arg].sender).socketId,
                              sockets[t.sock].userId, t.req, t.arg))
               ELSE emitted
     ELSE UNCHANGED <<messages, emitted>>
  /\ UNCHANGED <<sockets, connectedUsers, videoCallRooms, crashed, clients, dbFriends, dbBlocked, dbRequests,
                 dbStatus, inbound, responses>>

(* ---------------------------------------------------------------------- *)
(* PUT /api/messages/:messageId/read                                       *)
(* ---------------------------------------------------------------------- *)
HttpMarkRead(u, messageId, ok) ==
  /\ CanRequest
  /\ ~MayMarkRead(u, messageId) => ok
  /\ inbound' = Append(inbound, In("put_read", NoSocket, u, NoUser, messageId, FALSE, FALSE))
  /\ IF messageId \notin MessageIds
     THEN /\ responses' = Append(responses, Res(NextReq, u, "404", "Message not found"))
          /\ messages' = messages
     ELSE IF ~MayMarkRead(u, messageId)
     THEN /\ responses' = Append(responses, Res(NextReq, u, "403", "Not authorized"))
          /\ messages' = messages
     ELSE IF ok
     THEN /\ messages' = markAsRead(messages, messageId)
          /\ responses' = Append(responses, Res(NextReq, u, "200", "Message marked as read"))
     ELSE /\ messages' = messages
          /\ responses' = Append(responses, Res(NextReq, u, "500", "Server error"))
  /\ UNCHANGED <<sockets, connectedUsers, videoCallRooms, crashed, clients, dbFriends, dbBlocked, dbRequests,
                 dbStatus, tasks, emitted>>

(* ---------------------------------------------------------------------- *)
(* Reactions, edit and delete: routes/messages.js and the Message methods  *)
(* ---------------------------------------------------------------------- *)
Emojis == {"thumb", "heart"}

\* this.reactions.find(reaction => reaction.user.toString() === userId):
\* the index of the first reaction of u, 0 if there is none
ReactionOf(reactions, u) ==
  LET idx == {i \in 1..Len(reactions) : reactions[i].user = u}
  IN IF idx = {} THEN 0 ELSE CHOOSE i \in idx : \A j \in idx : i <= j

\* POST /api/messages/:messageId/reaction: Message.findById resolves and
\* addReaction changes the loaded document: it sets the emoji of the user's
\* reaction if it finds one and pushes a new reaction otherwise; this.save()
\* is then pending
AddReaction(u, messageId, emoji) ==
  /\ CanReceive
  /\ inbound' = Append(inbound, In("add_reaction", NoSocket, u, NoUser, messageId, FALSE, FALSE))
  /\ IF messageId \notin MessageIds
     THEN /\ responses' = Append(responses, Res(NextReq, u, "404", "Message not found"))
          /\ tasks' = tasks
     ELSE LET i == ReactionOf(messages[messageId].reactions, u)
          IN /\ responses' = responses
             /\ tasks' = tasks \cup
                  {Task(NextReq, "add_reaction", NoSocket, IF i = 0 THEN "push" ELSE "set",
                        [m |-> messageId, at |-> i, emoji |-> emoji])}
  /\ UNCHANGED <<sockets, connectedUsers, videoCallRooms, crashed, clients, dbVars, emitted>>

\* what the save of an addReaction stores: a pushed reaction is appended to
\* the stored array, a changed emoji is set at the position it was found at
Added(reactions, t, u) ==
  IF t.pc = "push" THEN Append(reactions, [user |-> u, emoji |-> t.arg.emoji])
  ELSE [reactions EXCEPT ![t.arg.at].emoji = t.arg.emoji]

\* the save of addReaction resolves (ok) or rejects (500); a positional set
\* resolves only if the array still has the reaction at that position
AddReactionSave(t, ok) ==
  /\ t \in tasks
  /\ t.kind = "add_reaction"
  /\ tasks' = tasks \ {t}
  /\ LET u == inbound[t.req].user
         stored == messages[t.arg.m].reactions
     IN /\ (ok /\ t.pc = "set") => (t.arg.at <= Len(stored) /\ stored[t.arg.at].user = u)
        /\ messages' = IF ok THEN [messages EXCEPT ![t.arg.m].reactions = Added(stored, t, u)]
                       ELSE messages
        /\ responses' = Append(responses,
                               IF ok THEN Res(t.req, u, "200", "Reaction added successfully")
                               ELSE Res(t.req, u, "500", "Server error"))
  /\ UNCHANGED <<sockets, connectedUsers, videoCallRooms, crashed, clients, dbFriends, dbBlocked,
                 dbRequests, dbStatus, inbound, emitted>>

\* this.reactions.filter(reaction => reaction.user.toString() !== userId)
WithoutReactionsOf(reactions, u) ==
  LET keep(r) == r.user # u IN SelectSeq(reactions, keep)

\* DELETE /api/messages/:messageId/reaction: Message.findById resolves and
\* removeReaction assigns the filtered array; this.save() is then pending
RemoveReaction(u, messageId) ==
  /\ CanReceive
  /\ inbound' = Append(inbound, In("remove_reaction", NoSocket, u, NoUser, messageId,
                                   FALSE, FALSE))
  /\ IF messageId \notin MessageIds
     THEN /\ responses' = Append(responses, Res(NextReq, u, "404", "Message not found"))
          /\ tasks' = tasks
     ELSE /\ responses' = responses
          /\ tasks' = tasks \cup
               {Task(NextReq, "remove_reaction", NoSocket, "assign",
                     [m |-> messageId,
                      reactions |-> WithoutReactionsOf(messages[messageId].reactions, u)])}
  /\ UNCHANGED <<sockets, connectedUsers, videoCallRooms, crashed, clients, dbVars, emitted>>

\* the save of removeReaction resolves (the assigned array is stored) or
\* rejects (500)
RemoveReactionSave(t, ok) ==
  /\ t \in tasks
  /\ t.kind = "remove_reaction"
  /\ tasks' = tasks \ {t}
  /\ messages' = IF ok THEN [messages EXCEPT ![t.arg.m].reactions = t.arg.reactions]
                 ELSE messages
  /\ responses' = Append(responses,
                         IF ok THEN Res(t.req, inbound[t.req].user, "200",
                                        "Reaction removed successfully")
                         ELSE Res(t.req, inbound[t.req].user, "500", "Server error"))
  /\ UNCHANGED <<sockets, connectedUsers, videoCallRooms, crashed, clients, dbFriends, dbBlocked,
                 dbRequests, dbStatus, inbound, emitted>>

\* an edit that also clears the read mark
editMessageUnread(msgs, messageId) ==
  [msgs EXCEPT ![messageId].isEdited = TRUE, ![messageId].isRead = FALSE]

\* this.content = newContent; this.isEdited = true; this.editedAt = new Date()
editMessage(msgs, messageId) == [msgs EXCEPT ![messageId].isEdited = TRUE]

\* if (!this.deletedFor.includes(userId)) this.deletedFor.push(userId)
deleteForUser(msgs, messageId, userId) ==
  [msgs EXCEPT ![messageId].deletedFor = @ \cup {userId}]

\* the reply of a route that only the sender of the message may use
SenderOnly(u, messageId, ok, done) ==
  IF messageId \notin MessageIds THEN Res(NextReq, u, "404", "Message not found")
  ELSE IF messages[messageId].sender # u THEN Res(NextReq, u, "403", "Not authorized")
  ELSE IF ok THEN Res(NextReq, u, "200", done)
  ELSE Res(NextReq, u, "500", "Server error")

\* PUT /api/messages/:messageId with content (messages are text messages)
EditMessage(u, messageId, ok) ==
  /\ CanReceive
  /\ inbound' = Append(inbound, In("edit_message", NoSocket, u, NoUser, messageId, FALSE, FALSE))
  /\ responses' = Append(responses, SenderOnly(u, messageId, ok, "Message edited successfully"))
  /\ messages' = IF responses'[Len(responses')].code = "200"
                 THEN editMessage(messages, messageId) ELSE messages
  /\ UNCHANGED <<sockets, connectedUsers, videoCallRooms, crashed, clients, dbFriends, dbBlocked,
                 dbRequests, dbStatus, tasks, emitted>>

\* DELETE /api/messages/:messageId
DeleteMessage(u, messageId, ok) ==
  /\ CanReceive
  /\ inbound' = Append(inbound, In("delete_message", NoSocket, u, NoUser, messageId,
                                   FALSE, FALSE))
  /\ responses' = Append(responses, SenderOnly(u, messageId, ok, "Message deleted successfully"))
  /\ messages' = IF responses'[Len(responses')].code = "200"
                 THEN deleteForUser(messages, messageId, u) ELSE messages
  /\ UNCHANGED <<sockets, connectedUsers, videoCallRooms, crashed, clients, dbFriends, dbBlocked,
                 dbRequests, dbStatus, tasks, emitted>>

\* countDocuments({receiver: userId, isRead: false, deletedFor: {$ne: userId}})
UnreadIn(msgs, userId) ==
  Cardinality({i \in 1..Len(msgs) :
                 /\ msgs[i].receiver = userId
                 /\ ~msgs[i].isRead
                 /\ userId \notin msgs[i].deletedFor})

getUnreadCount(userId) == UnreadIn(messages, userId)

(* ---------------------------------------------------------------------- *)
(* socket.on('video_call_request' / 'video_call_answer' / 'video_call_end') *)
(* ---------------------------------------------------------------------- *)
\* a request handler that lets calls through to friends only
CallRequestEventsFriendsOnly(s, receiverId, req) ==
  IF MapHas(connectedUsers, receiverId) /\ receiverId \in sockets[s].friends
  THEN <<Ev("incoming_call", MapGet(connectedUsers, receiverId).socketId,
            sockets[s].userId, req, "video")>>
  ELSE <<Ev("call_failed", s, sockets[s].userId, req, "User is offline")>>

\* a request handler that stays silent when the receiver is not registered
CallRequestEventsSilent(s, receiverId, req) ==
  IF MapHas(connectedUsers, receiverId)
  THEN <<Ev("incoming_call", MapGet(connectedUsers, receiverId).socketId,
            sockets[s].userId, req, "video")>>
  ELSE <<>>

\* receiverSocket = connectedUsers.get(receiverId);
\* if (receiverSocket) emit incoming_call to it, else socket.emit('call_failed')
CallRequestEvents(s, receiverId, req) ==
  IF MapHas(connectedUsers, receiverId)
  THEN <<Ev("incoming_call", MapGet(connectedUsers, receiverId).socketId,
            sockets[s].userId, req, "video")>>
  ELSE <<Ev("call_failed", s, sockets[s].userId, req, "User is offline")>>

VideoCallRequest(s, receiverId) ==
  /\ CanReceive
  /\ IsOpen(s)
  /\ inbound' = Append(inbound, In("video_call_request", s, sockets[s].userId, receiverId,
                                   "video", FALSE, FALSE))
  /\ emitted' = emitted \o CallRequestEvents(s, receiverId, NextReq)
  /\ UNCHANGED <<sockets, connectedUsers, videoCallRooms, crashed, clients, dbVars, tasks, responses>>

VideoCallAnswer(s, callerId, answer) ==
  /\ CanReceive
  /\ IsOpen(s)
  /\ inbound' = Append(inbound, In("video_call_answer", s, sockets[s].userId, callerId,
                                   answer, FALSE, FALSE))
  /\ emitted' = IF MapHas(connectedUsers, callerId)
                THEN Append(emitted, Ev("call_answered", MapGet(connectedUsers, callerId).socketId,
                                        sockets[s].userId, NextReq, answer))
                ELSE emitted
  /\ UNCHANGED <<sockets, connectedUsers, videoCallRooms, crashed, clients, dbVars, tasks, responses>>

VideoCallEnd(s, receiverId) ==
  /\ CanReceive
  /\ IsOpen(s)
  /\ inbound' = Append(inbound, In("video_call_end", s, sockets[s].userId, receiverId,
                                   "", FALSE, FALSE))
  /\ emitted' = IF MapHas(connectedUsers, receiverId)
                THEN Append(emitted, Ev("call_ended", MapGet(connectedUsers, receiverId).socketId,
                                        sockets[s].userId, NextReq, ""))
                ELSE emitted
  /\ UNCHANGED <<sockets, connectedUsers, videoCallRooms, crashed, clients, dbVars, tasks, responses>>

(* ---------------------------------------------------------------------- *)
(* socket.on('video_call_ice_candidate' / 'video_call_offer' /             *)
(*           'video_call_answer_sdp')                                      *)
(* ---------------------------------------------------------------------- *)
\* the opaque offer / answer / candidate values a client may send
Payloads == {"sdp1", "sdp2"}

\* a relay that tells the sender when the peer is not registered
ForwardOrFail(s, receiverId, ev, req, payload) ==
  IF MapHas(connectedUsers, receiverId)
  THEN <<Ev(ev, MapGet(connectedUsers, receiverId).socketId, sockets[s].userId, req, payload)>>
  ELSE <<Ev("call_failed", s, sockets[s].userId, req, "User is offline")>>

\* receiverSocket = connectedUsers.get(receiverId);
\* if (receiverSocket) emit ev{senderId, payload} to it; nothing otherwise
Forward(s, receiverId, ev, req, payload) ==
  IF MapHas(connectedUsers, receiverId)
  THEN <<Ev(ev, MapGet(connectedUsers, receiverId).socketId, sockets[s].userId, req, payload)>>
  ELSE <<>>

VideoCallIceCandidate(s, receiverId, candidate) ==
  /\ CanReceive
  /\ IsOpen(s)
  /\ inbound' = Append(inbound, In("video_call_ice_candidate", s, sockets[s].userId,
                                   receiverId, candidate, FALSE, FALSE))
  /\ emitted' = emitted \o Forward(s, receiverId, "ice_candidate", NextReq, candidate)
  /\ UNCHANGED <<sockets, connectedUsers, videoCallRooms, crashed, clients, dbVars, tasks, responses>>

VideoCallOffer(s, receiverId, offer) ==
  /\ CanReceive
  /\ IsOpen(s)
  /\ inbound' = Append(inbound, In("video_call_offer", s, sockets[s].userId,
                                   receiverId, offer, FALSE, FALSE))
  /\ emitted' = emitted \o Forward(s, receiverId, "call_offer", NextReq, offer)
  /\ UNCHANGED <<sockets, connectedUsers, videoCallRooms, crashed, clients, dbVars, tasks, responses>>

VideoCallAnswerSdp(s, receiverId, answer) ==
  /\ CanReceive
  /\ IsOpen(s)
  /\ inbound' = Append(inbound, In("video_call_answer_sdp", s, sockets[s].userId,
                                   receiverId, answer, FALSE, FALSE))
  /\ emitted' = emitted \o Forward(s, receiverId, "call_answer_sdp", NextReq, answer)
  /\ UNCHANGED <<sockets, connectedUsers, videoCallRooms, crashed, clients, dbVars, tasks, responses>>

(* ---------------------------------------------------------------------- *)
(* socket.on('friend_request_sent')                                        *)
(* ---------------------------------------------------------------------- *)
FriendRequestSent(s, receiverId) ==
  /\ CanReceive
  /\ IsOpen(s)
  /\ inbound' = Append(inbound, In("friend_request_sent", s, sockets[s].userId, receiverId,
                                   "", FALSE, FALSE))
  /\ emitted' = IF MapHas(connectedUsers, receiverId)
                THEN Append(emitted,
                            Ev("new_friend_request", MapGet(connectedUsers, receiverId).socketId,
                               sockets[s].userId, NextReq, ""))
                ELSE emitted
  /\ UNCHANGED <<sockets, connectedUsers, videoCallRooms, crashed, clients, dbVars, tasks, responses>>

(* ---------------------------------------------------------------------- *)
(* PUT /api/users/status                                                   *)
(* ---------------------------------------------------------------------- *)
\* the route writes the persisted status only; registry and sockets are
\* out of its reach
HttpPutStatus(u, status, ok) ==
  /\ CanRequest
  /\ inbound' = Append(inbound, In("put_status", NoSocket, u, NoUser, status, FALSE, FALSE))
  /\ IF status \notin validStatuses
     THEN /\ ok
          /\ responses' = Append(responses, Res(NextReq, u, "400", "Invalid status"))
          /\ dbStatus' = dbStatus
     ELSE IF ok
     THEN /\ dbStatus' = [dbStatus EXCEPT ![u] = status]
          /\ responses' = Append(responses, Res(NextReq, u, "200", "Status updated successfully"))
     ELSE /\ dbStatus' = dbStatus
          /\ responses' = Append(responses, Res(NextReq, u, "500", "Server error"))
  /\ UNCHANGED <<sockets, connectedUsers, videoCallRooms, crashed, clients, dbFriends, dbBlocked, dbRequests,
                 messages, tasks, emitted>>

(* ---------------------------------------------------------------------- *)
(* socket.on('typing_start' / 'typing_stop')                               *)
(* ---------------------------------------------------------------------- *)
\* a typing handler that tells the sender when the receiver is offline
TypingEventsWithError(s, receiverId, ev, req) ==
  IF MapHas(connectedUsers, receiverId)
  THEN <<Ev(ev, MapGet(connectedUsers, receiverId).socketId, sockets[s].userId, req, "")>>
  ELSE <<Ev("error", s, sockets[s].userId, req, "User is offline")>>

\* receiverSocket = connectedUsers.get(receiverId);
\* if (receiverSocket) emit ev{userId: socket.userId} to it
TypingEvents(s, receiverId, ev, req) ==
  IF MapHas(connectedUsers, receiverId)
  THEN <<Ev(ev, MapGet(connectedUsers, receiverId).socketId, sockets[s].userId, req, "")>>
  ELSE <<>>

TypingStart(s, receiverId) ==
  /\ CanReceive
  /\ IsOpen(s)
  /\ inbound' = Append(inbound, In("typing_start", s, sockets[s].userId, receiverId,
                                   "", FALSE, FALSE))
  /\ emitted' = emitted \o TypingEvents(s, receiverId, "user_typing", NextReq)
  /\ UNCHANGED <<sockets, connectedUsers, videoCallRooms, crashed, clients, dbVars, tasks, responses>>

TypingStop(s, receiverId) ==
  /\ CanReceive
  /\ IsOpen(s)
  /\ inbound' = Append(inbound, In("typing_stop", s, sockets[s].userId, receiverId,
                                   "", FALSE, FALSE))
  /\ emitted' = emitted \o TypingEvents(s, receiverId, "user_stopped_typing", NextReq)
  /\ UNCHANGED <<sockets, connectedUsers, videoCallRooms, crashed, clients, dbVars, tasks, responses>>

(* ---------------------------------------------------------------------- *)
(* An event emitted with no payload: the handler is called with data       *)
(* undefined and its first statement, const { ... } = data, throws         *)
(* ---------------------------------------------------------------------- *)
\* handlers that are plain functions with no try/catch
SyncHandlers ==
  {"typing_start", "typing_stop", "video_call_request", "video_call_answer",
   "video_call_ice_candidate", "video_call_offer", "video_call_answer_sdp",
   "video_call_end"}

\* handlers whose body, destructuring included, is inside try/catch
GuardedHandlers == {"send_message", "mark_read", "status_change", "friend_request_sent"}

\* a sync handler's TypeError leaves the listener uncaught and ends the
\* process: every connection, the registry and every suspended handler go
\* with it.  A guarded handler's catch logs it; send_message's also emits error.
EmitWithoutPayload(s, kind) ==
  /\ CanReceive
  /\ IsOpen(s)
  /\ inbound' = Append(inbound, In(kind, s, sockets[s].userId, NoUser, "undefined", FALSE, FALSE))
  /\ IF kind \in SyncHandlers
     THEN /\ crashed' = TRUE
          /\ sockets' = [x \in SocketIds |->
                           IF IsOpen(x) THEN [sockets[x] EXCEPT !.st = "closed"] ELSE sockets[x]]
          /\ connectedUsers' = {}
          /\ tasks' = {}
          /\ emitted' = emitted
     ELSE /\ emitted' = IF kind = "send_message"
                        THEN Append(emitted, Ev("error", s, sockets[s].userId, NextReq,
                                                "Failed to send message"))
                        ELSE emitted
          /\ UNCHANGED <<crashed, sockets, connectedUsers, tasks>>
  /\ UNCHANGED <<videoCallRooms, clients, dbVars, responses>>

(* ---------------------------------------------------------------------- *)
(* The browser client: SocketProvider's call state, its call functions and *)
(* its listeners.  A client's emits reach the server in the order sent,    *)
(* the server's events reach the client in the order emitted.              *)
(* ---------------------------------------------------------------------- *)
serverVars == <<sockets, connectedUsers, videoCallRooms, crashed, dbFriends, dbBlocked, dbRequests,
                dbStatus, messages, tasks, inbound, emitted, responses>>

ClientKinds == {"video_call_request", "video_call_answer", "video_call_end"}

\* how many of the emits of the client behind s the server has handled
Consumed(s) ==
  Cardinality({k \in 1..Len(inbound) : inbound[k].sock = s /\ inbound[k].kind \in ClientKinds})

RECURSIVE TotalSent(_)
\* the emits of the clients behind the sockets 1..n
TotalSent(n) == IF n = 0 THEN 0 ELSE Len(clients[n].sent) + TotalSent(n - 1)

\* the run stops taking client emits when the server could not take them all
CanEmit(s) ==
  /\ IsOpen(s)
  /\ ~crashed
  /\ Cardinality({k \in 1..Len(inbound) : inbound[k].kind \notin ClientKinds})
       + TotalSent(MaxSockets) < MaxEvents

\* socket.emit(kind, {receiverId | callerId, answer})
Emit(c, kind, rcv, arg) ==
  [c EXCEPT !.sent = Append(@, [kind |-> kind, rcv |-> rcv, arg |-> arg])]

startCall(s, receiverId) ==
  /\ CanEmit(s)
  /\ receiverId # sockets[s].userId
  /\ clients' = [clients EXCEPT ![s] =
                   [Emit(@, "video_call_request", receiverId, "video") EXCEPT
                      !.activeCall = [type |-> "outgoing", participant |-> receiverId,
                                      status |-> "calling"]]]
  /\ UNCHANGED serverVars

\* if (activeCall) socket.emit('video_call_end', ...); setActiveCall(null)
EndedCall(c) ==
  IF c.activeCall # NoActiveCall
  THEN [Emit(c, "video_call_end", c.activeCall.participant, "") EXCEPT
          !.activeCall = NoActiveCall]
  ELSE c

\* the End button of the VideoCall component, rendered while activeCall is set
endCall(s) ==
  /\ CanEmit(s)
  /\ clients[s].activeCall # NoActiveCall
  /\ clients' = [clients EXCEPT ![s] = EndedCall(@)]
  /\ UNCHANGED serverVars

\* the Accept button of the toast that incoming_call event i has put up:
\* acceptCall(data); toast.dismiss(t.id)
acceptCall(s, i) ==
  /\ CanEmit(s)
  /\ i \in clients[s].toasts
  /\ clients' = [clients EXCEPT ![s] =
                   [Emit(@, "video_call_answer", emitted[i].from, "accepted") EXCEPT
                      !.incomingCall = NoUser,
                      !.toasts = @ \ {i},
                      !.activeCall = [type |-> "incoming", participant |-> emitted[i].from,
                                      status |-> "connected"]]]
  /\ UNCHANGED serverVars

\* the Decline button of that toast: rejectCall(data.callerId); toast.dismiss(t.id)
rejectCall(s, i) ==
  /\ CanEmit(s)
  /\ i \in clients[s].toasts
  /\ clients' = [clients EXCEPT ![s] =
                   [Emit(@, "video_call_answer", emitted[i].from, "rejected") EXCEPT
                      !.incomingCall = NoUser,
                      !.toasts = @ \ {i}]]
  /\ UNCHANGED serverVars

\* the outbound events addressed to s that its client has not listened to yet
Unheard(s) == {i \in (clients[s].seen + 1)..Len(emitted) : emitted[i].to = s}

\* newSocket.on('incoming_call' / 'call_answered' / 'call_ended'), hearing
\* event i; the other events leave the call state alone
Heard(c, i) ==
  LET e == emitted[i] IN
  IF e.ev = "incoming_call"
  THEN [c EXCEPT !.incomingCall = e.from, !.toasts = @ \cup {i}]
  ELSE IF e.ev = "call_answered"
  THEN IF e.arg = "accepted"
       THEN [c EXCEPT !.activeCall = [type |-> "outgoing", participant |-> e.from,
                                      status |-> "connected"]]
       ELSE [c EXCEPT !.activeCall = NoActiveCall]
  ELSE IF e.ev = "call_ended"
  THEN EndedCall(c)
  ELSE c

Listen(s) ==
  /\ Unheard(s) # {}
  /\ LET i == CHOOSE i \in Unheard(s) : \A j \in Unheard(s) : i <= j
     IN /\ (emitted[i].ev = "call_ended" /\ clients[s].activeCall # NoActiveCall) => CanEmit(s)
        /\ clients' = [clients EXCEPT ![s] = [Heard(@, i) EXCEPT !.seen = i]]
  /\ UNCHANGED serverVars

\* the next emit of the client behind s reaches the server
NextEmit(s) == clients[s].sent[Consumed(s) + 1]

HasEmit(s, kind) ==
  /\ Consumed(s) < Len(clients[s].sent)
  /\ NextEmit(s).kind = kind

ReceiveCallRequest(s) ==
  /\ HasEmit(s, "video_call_request")
  /\ VideoCallRequest(s, NextEmit(s).rcv)

ReceiveCallAnswer(s) ==
  /\ HasEmit(s, "video_call_answer")
  /\ VideoCallAnswer(s, NextEmit(s).rcv, NextEmit(s).arg)

ReceiveCallEnd(s) ==
  /\ HasEmit(s, "video_call_end")
  /\ VideoCallEnd(s, NextEmit(s).rcv)

\* A and B have connected, on the sockets 1 and 2, and their connection
\* handlers have completed; the logs start here
InitClient ==
  /\ sockets = [s \in SocketIds |->
                  IF s = 1 THEN [st |-> "open", userId |-> "A", friends |-> InitFriends["A"],
                                 blocked |-> {}]
                  ELSE IF s = 2 THEN [st |-> "open", userId |-> "B",
                                      friends |-> InitFriends["B"], blocked |-> {}]
                  ELSE FreeSocket]
  /\ connectedUsers = {[key |-> "A", socketId |-> 1, status |-> "online"],
                       [key |-> "B", socketId |-> 2, status |-> "online"]}
  /\ videoCallRooms = {}
  /\ crashed = FALSE
  /\ clients = [s \in SocketIds |-> NewClient]
  /\ dbFriends = InitFriends
  /\ dbBlocked = [u \in Users |-> {}]
  /\ dbRequests = InitRequests
  /\ dbStatus = [u \in Users |-> IF u \in {"A", "B"} THEN "online" ELSE "offline"]
  /\ messages = InitMessages
  /\ tasks = {}
  /\ inbound = <<>>
  /\ emitted = <<>>
  /\ responses = <<>>

(* ---------------------------------------------------------------------- *)
(* Specifications                                                          *)
(* ---------------------------------------------------------------------- *)
\* Each specification below takes the handlers of one part of the server.  A
\* connection or disconnect handler whose remaining step only writes the
\* persisted status and fans out presence stays suspended in a specification
\* that does not list that step: no handler of that specification reads either.

\* a suspended handler resumes, its awaited call having resolved or rejected
ConnectDbUpdateStep == \E t \in tasks, ok \in BOOLEAN : ConnectDbUpdate(t, ok)
StatusChangeFinishStep == \E t \in tasks, ok \in BOOLEAN : StatusChangeFinish(t, ok)
DisconnectFinishStep == \E t \in tasks, ok \in BOOLEAN : DisconnectFinish(t, ok)
SendSaveStep == \E t \in tasks, ok \in BOOLEAN : SendSave(t, ok)
SendDeliverStep == \E t \in tasks, ok \in BOOLEAN : SendDeliver(t, ok)
MarkReadSaveStep == \E t \in tasks, ok \in BOOLEAN : MarkReadSave(t, ok)

\* message relay: socket send_message and POST /api/messages
NextMsg ==
  \/ \E u \in Users : Connect(u)
  \/ \E s \in SocketIds : Disconnect(s)
  \/ \E a, b \in Users : Block(a, b)
  \/ \E s \in SocketIds, r \in Users \cup {NoUser} : SendMessage(s, r)
  \/ SendSaveStep
  \/ SendDeliverStep
  \/ \E u \in Users, r \in Users \cup {NoUser}, o \in DbOutcomes : HttpPostMessage(u, r, o)

SpecMsg == Init /\ [][NextMsg]_vars

\* read receipts: socket mark_read and PUT /api/messages/:messageId/read
NextRead ==
  \/ \E u \in Users : Connect(u)
  \/ \E s \in SocketIds : Disconnect(s)
  \/ \E s \in SocketIds, r \in Users : SendMessage(s, r)
  \/ SendSaveStep
  \/ SendDeliverStep
  \/ \E s \in SocketIds, m \in MessageIds \cup {NoMessage} : MarkRead(s, m)
  \/ MarkReadSaveStep
  \/ \E u \in Users, m \in MessageIds \cup {NoMessage}, ok \in BOOLEAN : HttpMarkRead(u, m, ok)

SpecRead == Init /\ [][NextRead]_vars

\* call signaling
NextCall ==
  \/ \E u \in Users : Connect(u)
  \/ \E s \in SocketIds : Disconnect(s)
  \/ DisconnectFinishStep
  \/ \E s \in SocketIds, r \in Users \cup {NoUser} : VideoCallRequest(s, r)
  \/ \E s \in SocketIds, c \in Users, a \in {"accepted", "rejected"} : VideoCallAnswer(s, c, a)
  \/ \E s \in SocketIds, r \in Users : VideoCallEnd(s, r)

SpecCall == Init /\ [][NextCall]_vars

\* WebRTC signaling relays
NextSignal ==
  \/ \E u \in Users : Connect(u)
  \/ \E s \in SocketIds : Disconnect(s)
  \/ \E s \in SocketIds, r \in Users : VideoCallRequest(s, r)
  \/ \E s \in SocketIds, c \in Users : VideoCallAnswer(s, c, "accepted")
  \/ \E s \in SocketIds, r \in Users : VideoCallEnd(s, r)
  \/ \E s \in SocketIds, r \in Users : VideoCallIceCandidate(s, r, "candidate")
  \/ \E s \in SocketIds, r \in Users : VideoCallOffer(s, r, "offer")
  \/ \E s \in SocketIds, r \in Users : VideoCallAnswerSdp(s, r, "answer")

SpecSignal == Init /\ [][NextSignal]_vars

\* payloads and persistence outcomes of every kind
NextCrash ==
  \/ \E u \in Users : Connect(u)
  \/ \E s \in SocketIds : Disconnect(s)
  \/ DisconnectFinishStep
  \/ \E s \in SocketIds, r \in Users \cup {NoUser} : SendMessage(s, r)
  \/ SendSaveStep
  \/ SendDeliverStep
  \/ \E s \in SocketIds, st \in {"away", BadStatus} : StatusChange(s, st)
  \/ StatusChangeFinishStep
  \/ \E s \in SocketIds, r \in Users \cup {NoUser} : VideoCallRequest(s, r)
  \/ \E s \in SocketIds, k \in SyncHandlers \cup GuardedHandlers : EmitWithoutPayload(s, k)

SpecCrash == Init /\ [][NextCrash]_vars

\* authorization of calls next to that of messages
NextGate ==
  \/ \E u \in Users : Connect(u)
  \/ \E s \in SocketIds : Disconnect(s)
  \/ \E a, b \in Users : Block(a, b)
  \/ \E s \in SocketIds, r \in Users : VideoCallRequest(s, r)
  \/ \E s \in SocketIds, r \in Users : SendMessage(s, r)
  \/ SendSaveStep
  \/ SendDeliverStep

SpecGate == Init /\ [][NextGate]_vars

\* typing indicators
NextTyping ==
  \/ \E u \in Users : Connect(u)
  \/ \E s \in SocketIds : Disconnect(s)
  \/ \E a, b \in Users : Block(a, b)
  \/ \E s \in SocketIds, r \in Users \cup {NoUser} : TypingStart(s, r)
  \/ \E s \in SocketIds, r \in Users \cup {NoUser} : TypingStop(s, r)

SpecTyping == Init /\ [][NextTyping]_vars

\* status over the socket and over HTTP
NextStatus ==
  \/ \E u \in Users : Connect(u)
  \/ \E s \in SocketIds, st \in {"away", "offline", BadStatus} : StatusChange(s, st)
  \/ StatusChangeFinishStep
  \/ \E s \in SocketIds : Disconnect(s)
  \/ \E u \in Users, st \in {"busy", BadStatus}, ok \in BOOLEAN : HttpPutStatus(u, st, ok)

SpecStatus == Init /\ [][NextStatus]_vars

\* a click on a button of one of the toasts on screen
acceptCallStep == \E s \in SocketIds : \E i \in clients[s].toasts : acceptCall(s, i)
rejectCallStep == \E s \in SocketIds : \E i \in clients[s].toasts : rejectCall(s, i)

\* calls as the clients make them
NextClient ==
  \/ \E s \in SocketIds, r \in Users : startCall(s, r)
  \/ \E s \in SocketIds : endCall(s)
  \/ acceptCallStep
  \/ rejectCallStep
  \/ \E s \in SocketIds : Listen(s)
  \/ \E s \in SocketIds : ReceiveCallRequest(s)
  \/ \E s \in SocketIds : ReceiveCallAnswer(s)
  \/ \E s \in SocketIds : ReceiveCallEnd(s)

SpecClient == InitClient /\ [][NextClient]_vars

\* the friend set of an open connection next to the persisted one
NextSnapshot ==
  \/ \E u \in Users : Connect(u)
  \/ \E s \in SocketIds : Disconnect(s)
  \/ \E a \in {"A"}, b \in Users : Block(a, b)
  \/ \E a \in {"accept", "reject"} : RespondRequest("A", 1, a, "ok")
  \/ \E u, f \in Users : RemoveFriend(u, f, "ok")
  \/ \E s \in SocketIds, r \in Users : SendMessage(s, r)
  \/ \E s \in SocketIds : StatusChange(s, "away")
  \/ StatusChangeFinishStep

SpecSnapshot == Init /\ [][NextSnapshot]_vars

\* the three relays with the payloads clients choose
NextRelay ==
  \/ \E u \in Users : Connect(u)
  \/ \E s \in SocketIds : Disconnect(s)
  \/ \E s \in SocketIds, r \in Users, p \in Payloads : VideoCallIceCandidate(s, r, p)
  \/ \E s \in SocketIds, r \in Users, p \in Payloads : VideoCallOffer(s, r, p)
  \/ \E s \in SocketIds, r \in Users, p \in Payloads : VideoCallAnswerSdp(s, r, p)

SpecRelay == Init /\ [][NextRelay]_vars

ConnectDbUpdateDone == \E t \in tasks : ConnectDbUpdate(t, TRUE)

StatusChangeDone == \E t \in tasks : StatusChangeFinish(t, TRUE)

DisconnectDone == \E t \in tasks : DisconnectFinish(t, TRUE)

\* calls that are never answered and never ended by hand: the server handles
\* every emit and finishes every disconnect, the clients listen to every
\* event sent to them
ListenStep == \E s \in SocketIds : Listen(s)

ReceiveCallRequestStep == \E s \in SocketIds : ReceiveCallRequest(s)

NextCaller ==
  \/ \E s \in SocketIds, r \in Users : startCall(s, r)
  \/ ListenStep
  \/ ReceiveCallRequestStep
  \/ \E s \in SocketIds : Disconnect(s)
  \/ DisconnectDone

SpecCaller ==
  /\ InitClient
  /\ [][NextCaller]_vars
  /\ WF_vars(ListenStep)
  /\ WF_vars(ReceiveCallRequestStep)
  /\ WF_vars(DisconnectDone)

SendRequestSaveStep == \E t \in tasks, ok \in BOOLEAN : SendRequestSave(t, ok)

AddReactionSaveStep == \E t \in tasks, ok \in BOOLEAN : AddReactionSave(t, ok)

RemoveReactionSaveStep == \E t \in tasks, ok \in BOOLEAN : RemoveReactionSave(t, ok)

\* reactions to the stored messages
NextReact ==
  \/ \E u \in {"A", "B"}, m \in MessageIds, e \in Emojis : AddReaction(u, m, e)
  \/ AddReactionSaveStep
  \/ \E u \in {"A", "B"}, m \in MessageIds : RemoveReaction(u, m)
  \/ RemoveReactionSaveStep

SpecReact == Init /\ [][NextReact]_vars

\* the friend routes, used by A and C towards each other (B is A's friend)
NextFriends ==
  \/ \E u, t \in {"A", "C"} : SendRequest(u, t)
  \/ SendRequestSaveStep
  \/ \E u \in {"A", "C"}, a \in {"accept", "reject"}, o \in {"ok", "user_save_fails"} :
       RespondRoute(u, 1, a, o)
  \/ \E f \in {"B", "C"} : RemoveRoute("A", f, "ok")
  \/ \E a, b \in {"A", "C"}, o \in {"ok", "target_save_fails"} : BlockRoute(a, b, o)
  \/ \E a, b \in {"A", "C"} : UnblockRoute(a, b, TRUE)

SpecFriends == Init /\ [][NextFriends]_vars

\* the socket handlers and the HTTP routes for messages, next to the routes
\* that change the sender's friends and blocked users
NextEquiv ==
  \/ \E u \in Users : Connect(u)
  \/ \E a, b \in Users, o \in {"ok", "target_save_fails"} : BlockRoute(a, b, o)
  \/ \E u \in Users, a \in {"accept", "reject"} : RespondRoute(u, 1, a, "ok")
  \/ \E s \in SocketIds, r \in Users : SendMessage(s, r)
  \/ SendSaveStep
  \/ SendDeliverStep
  \/ \E u \in Users, r \in Users : HttpPostMessage(u, r, "ok")
  \/ \E s \in SocketIds, m \in MessageIds \cup {NoMessage} : MarkRead(s, m)
  \/ MarkReadSaveStep
  \/ \E u \in Users, m \in MessageIds \cup {NoMessage}, ok \in BOOLEAN : HttpMarkRead(u, m, ok)

SpecEquiv == Init /\ [][NextEquiv]_vars

\* every handler that addresses another user
NextRouting ==
  \/ \E u \in Users : Connect(u)
  \/ \E s \in SocketIds : Disconnect(s)
  \/ \E s \in SocketIds, r \in Users : SendMessage(s, r)
  \/ SendSaveStep
  \/ SendDeliverStep
  \/ \E s \in SocketIds, m \in MessageIds : MarkRead(s, m)
  \/ MarkReadSaveStep
  \/ \E s \in SocketIds, r \in Users : TypingStart(s, r)
  \/ \E s \in SocketIds, r \in Users : VideoCallRequest(s, r)
  \/ \E s \in SocketIds, c \in Users : VideoCallAnswer(s, c, "accepted")
  \/ \E s \in SocketIds, r \in Users : VideoCallOffer(s, r, "offer")
  \/ \E s \in SocketIds, r \in Users : FriendRequestSent(s, r)

SpecRouting == Init /\ [][NextRouting]_vars

\* registry and presence when every persistence update succeeds: what is
\* left is the order in which the suspended handlers resume
NextRace ==
  \/ \E u \in Users : Connect(u)
  \/ ConnectDbUpdateDone
  \/ \E s \in SocketIds, st \in {"away", "busy"} : StatusChange(s, st)
  \/ StatusChangeDone
  \/ \E s \in SocketIds : Disconnect(s)
  \/ DisconnectDone

SpecRace == Init /\ [][NextRace]_vars

\* registry and presence
Next ==
  \/ \E u \in Users : Connect(u)
  \/ ConnectDbUpdateStep
  \/ \E s \in SocketIds, st \in {"away", "busy", BadStatus} : StatusChange(s, st)
  \/ StatusChangeFinishStep
  \/ \E s \in SocketIds : Disconnect(s)
  \/ DisconnectFinishStep

Spec == Init /\ [][Next]_vars

(* ---------------------------------------------------------------------- *)
(* Observations on the logs                                                *)
(* ---------------------------------------------------------------------- *)
Requests == 1..Len(inbound)

EventsOf(ev, req) == {i \in 1..Len(emitted) : emitted[i].ev = ev /\ emitted[i].req = req}

MessagesOf(req) == {i \in 1..Len(messages) : messages[i].req = req}

\* no handler of the request is suspended any more
Finished(req) == \A t \in tasks : t.req # req

SocketsOf(u) == {s \in SocketIds : sockets[s].st # "free" /\ sockets[s].userId = u}

(* ---------------------------------------------------------------------- *)
(* Registry                                                                *)
(* ---------------------------------------------------------------------- *)
\* C1: the registry holds at most one entry per userId, and the entry of a
\* user is the connection that user opened last (a new connection replaces
\* the entry of an earlier one).
C1_OneEntryPerUser ==
  /\ \A e1, e2 \in connectedUsers : e1.key = e2.key => e1 = e2
  /\ \A e \in connectedUsers :
       /\ sockets[e.socketId].userId = e.key
       /\ \A s \in SocketsOf(e.key) : s <= e.socketId

\* a user opened a second connection while the first was registered, and is registered
C1_Witness ==
  \E u \in Users :
    /\ Cardinality({s \in SocketsOf(u) : IsOpen(s)}) >= 2
    /\ MapHas(connectedUsers, u)

\* C2: the connection a user opened last, while it is open, is the one the
\* registry resolves the user to (the disconnect of an earlier, replaced
\* connection leaves the entry in place).
C2_LiveConnectionResolves ==
  \A s \in OpenSockets :
    (\A s2 \in SocketsOf(sockets[s].userId) : s2 <= s)
      => \E e \in connectedUsers : e.key = sockets[s].userId /\ e.socketId = s

(* ---------------------------------------------------------------------- *)
(* Message relay                                                           *)
(* ---------------------------------------------------------------------- *)
IsSend(r) == inbound[r].kind \in {"send_message", "post_message"}

Denials(r) ==
  IF inbound[r].kind = "send_message"
  THEN {i \in EventsOf("error", r) : emitted[i].to = inbound[r].sock}
  ELSE {i \in 1..Len(responses) :
          responses[i].req = r /\ responses[i].code \in {"403", "404"}}

\* C3: a send from A to B with B not in A's friend set is denied: A gets one
\* error (an error event on the socket, a 403/404 response over HTTP), no
\* message is persisted and no new_message is emitted.
C3_NonFriendDenied ==
  \A r \in Requests :
    (IsSend(r) /\ ~inbound[r].friend) =>
      /\ Cardinality(Denials(r)) = 1
      /\ MessagesOf(r) = {}
      /\ EventsOf("new_message", r) = {}
      /\ EventsOf("message_sent", r) = {}
      /\ Finished(r)

\* both paths have refused a send to an existing user who is not a friend
C3_Witness ==
  /\ \E r \in Requests :
       /\ inbound[r].kind = "send_message"
       /\ inbound[r].rcv \in Users \ {inbound[r].user}
       /\ ~inbound[r].friend
       /\ Denials(r) # {}
  /\ \E r \in Requests :
       /\ inbound[r].kind = "post_message"
       /\ inbound[r].rcv \in Users \ {inbound[r].user}
       /\ ~inbound[r].friend
       /\ Denials(r) # {}

\* C4: a send from A to B is denied when A has blocked B or B has blocked A,
\* also when B is in A's friend set: nothing is persisted, nothing delivered.
C4_BlockedDenied ==
  \A r \in Requests :
    (IsSend(r) /\ inbound[r].blocked) =>
      /\ MessagesOf(r) = {}
      /\ EventsOf("new_message", r) = {}
      /\ EventsOf("message_sent", r) = {}

\* the Authorization Gate's verdict on a send, from what it is given on arrival
GateDenies(r) ==
  \/ inbound[r].rcv \notin Users
  \/ inbound[r].blocked
  \/ ~inbound[r].friend

\* C5: a handled send_message produces exactly one terminal event to the
\* sender: an error event when the send is denied, else one of message_sent
\* and error; never both, never neither.
C5_OneTerminalEvent ==
  \A r \in Requests :
    (inbound[r].kind = "send_message" /\ Finished(r)) =>
      /\ Cardinality(EventsOf("message_sent", r)) + Cardinality(EventsOf("error", r)) = 1
      /\ \A i \in EventsOf("message_sent", r) \cup EventsOf("error", r) :
           emitted[i].to = inbound[r].sock
      /\ GateDenies(r) => EventsOf("message_sent", r) = {}

\* the part of C5 the handler does keep: whatever it decides, a handled
\* send_message ends in exactly one of message_sent and error, sent to the sender
OneTerminalEventAsDecided ==
  \A r \in Requests :
    (inbound[r].kind = "send_message" /\ Finished(r)) =>
      /\ Cardinality(EventsOf("message_sent", r)) + Cardinality(EventsOf("error", r)) = 1
      /\ \A i \in EventsOf("message_sent", r) \cup EventsOf("error", r) :
           emitted[i].to = inbound[r].sock

\* an allowed send_message whose save and populate calls all succeeded
AllowedAndPersisted(r) ==
  /\ inbound[r].kind = "send_message"
  /\ ~GateDenies(r)
  /\ Finished(r)
  /\ EventsOf("error", r) = {}

C6_Outcome ==
  \A r \in Requests :
    AllowedAndPersisted(r) =>
      /\ Cardinality(MessagesOf(r)) = 1
      /\ Cardinality(EventsOf("message_sent", r)) = 1
      /\ \A i \in EventsOf("message_sent", r) :
           emitted[i].to = inbound[r].sock /\ emitted[i].arg \in MessagesOf(r)
      /\ Cardinality(EventsOf("new_message", r)) <= 1
      /\ \A i \in EventsOf("new_message", r) :
           /\ emitted[i].to \in SocketsOf(inbound[r].rcv)
           /\ emitted[i].from = inbound[r].user
           /\ emitted[i].arg \in MessagesOf(r)

\* in the step that acknowledges request t.req, new_message goes out exactly
\* if the receiver is registered, and then to the registered connection
C6_Delivery ==
  \A t \in tasks :
    (t.kind = "send_message" /\ t \notin tasks'
       /\ \E i \in 1..Len(emitted') : emitted'[i].ev = "message_sent" /\ emitted'[i].req = t.req)
    => LET new == {i \in 1..Len(emitted') :
                     emitted'[i].ev = "new_message" /\ emitted'[i].req = t.req}
       IN IF MapHas(connectedUsers, t.arg)
          THEN /\ Cardinality(new) = 1
               /\ \A i \in new : emitted'[i].to = MapGet(connectedUsers, t.arg).socketId
          ELSE new = {}

\* C6: an allowed send_message whose persistence succeeds is persisted once,
\* is acknowledged to the sender with one message_sent whether or not the
\* receiver is registered, and reaches the receiver as one new_message
\* exactly if the receiver is registered when the handler resolves it.
C6_PersistAckDeliver == []C6_Outcome /\ [][C6_Delivery]_vars

\* one allowed send was delivered to a registered receiver, another was
\* acknowledged while the receiver was not registered
C6_Witness ==
  \E r1, r2 \in Requests :
    /\ AllowedAndPersisted(r1)
    /\ AllowedAndPersisted(r2)
    /\ EventsOf("new_message", r1) # {}
    /\ EventsOf("new_message", r2) = {}
    /\ EventsOf("message_sent", r2) # {}

(* ---------------------------------------------------------------------- *)
(* Read receipts                                                           *)
(* ---------------------------------------------------------------------- *)
IsMarkRead(r) == inbound[r].kind \in {"mark_read", "put_read"}

\* the request names an existing message whose receiver is the acting user
ByReceiver(r) ==
  /\ inbound[r].arg \in MessageIds
  /\ messages[inbound[r].arg].receiver = inbound[r].user

\* a mark_read that is not the receiver's leaves no handler behind, emits
\* nothing, and over HTTP is answered 403 / 404
C7_Refused ==
  \A r \in Requests :
    (IsMarkRead(r) /\ ~ByReceiver(r)) =>
      /\ Finished(r)
      /\ \A i \in 1..Len(emitted) : emitted[i].req # r
      /\ \A i \in 1..Len(responses) :
           responses[i].req = r => responses[i].code \in {"403", "404"}

\* every message_read reports a message that is read, on behalf of its receiver
C7_Receipts ==
  \A i \in 1..Len(emitted) :
    emitted[i].ev = "message_read" =>
      /\ emitted[i].arg \in MessageIds
      /\ messages[emitted[i].arg].isRead
      /\ emitted[i].from = messages[emitted[i].arg].receiver
      /\ inbound[emitted[i].req].kind = "mark_read"
      /\ inbound[emitted[i].req].user = messages[emitted[i].arg].receiver

\* a step that changes a stored message is the receiver's mark_read of that
\* message; the arrival of a refused mark_read changes nothing but the log of
\* inbound events and the responses
C7_Frame ==
  /\ \A m \in MessageIds :
       messages'[m] # messages[m] =>
         /\ messages'[m] = [messages[m] EXCEPT !.isRead = TRUE, !.readAt = SomeDate]
         /\ \E r \in 1..Len(inbound') :
              /\ inbound'[r].kind \in {"mark_read", "put_read"}
              /\ inbound'[r].arg = m
              /\ inbound'[r].user = messages[m].receiver
  /\ (Len(inbound') > Len(inbound)
        /\ inbound'[Len(inbound')].kind \in {"mark_read", "put_read"}
        /\ ~(/\ inbound'[Len(inbound')].arg \in MessageIds
             /\ messages[inbound'[Len(inbound')].arg].receiver = inbound'[Len(inbound')].user))
     => UNCHANGED <<messages, connectedUsers, sockets, tasks, emitted>>

\* C7: mark_read changes state only when the message exists and the acting
\* user is its receiver; for any other actor or a missing message the read
\* flag, the registry and every other message stay as they are and no
\* message_read is emitted (socket handler and PUT .../read alike).
C7_MarkReadOnlyByReceiver == []C7_Refused /\ []C7_Receipts /\ [][C7_Frame]_vars

\* the sender of a message tried to mark it read on both paths and it is
\* still unread; then its receiver marked it read
C7_Witness ==
  \E m \in MessageIds :
    /\ \E r \in Requests :
         /\ inbound[r].kind = "mark_read"
         /\ inbound[r].arg = m
         /\ inbound[r].user = messages[m].sender
    /\ \E r \in Requests :
         /\ inbound[r].kind = "mark_read"
         /\ inbound[r].arg = m
         /\ inbound[r].user = messages[m].receiver
    /\ messages[m].isRead

(* ---------------------------------------------------------------------- *)
(* Call signaling                                                          *)
(* ---------------------------------------------------------------------- *)
NoCall == [st |-> "none", caller |-> NoUser]

RECURSIVE CallAfter(_, _, _)
\* the call session of the pair {a, b} after the first k inbound events, as
\* the Call Signaling Broker's state machine defines it: a request whose
\* incoming_call went out starts a ringing call; the callee's answer
\* connects it or ends it; video_call_end of either party, or the
\* disconnect of either party, ends it
CallAfter(a, b, k) ==
  IF k = 0 THEN NoCall
  ELSE LET e == inbound[k]
           prev == CallAfter(a, b, k - 1)
           between == a # b /\ {e.user, e.rcv} = {a, b}
       IN IF e.kind = "video_call_request" /\ between
          THEN IF prev.st = "none" /\ EventsOf("incoming_call", k) # {}
               THEN [st |-> "ringing", caller |-> e.user]
               ELSE prev
          ELSE IF e.kind = "video_call_answer" /\ between
                    /\ prev.st = "ringing" /\ prev.caller = e.rcv
          THEN IF e.arg = "accepted"
               THEN [st |-> "connected", caller |-> prev.caller]
               ELSE NoCall
          ELSE IF e.kind = "video_call_end" /\ between
          THEN NoCall
          ELSE IF e.kind = "disconnect" /\ e.user \in {a, b}
          THEN NoCall
          ELSE prev

\* C8: a video_call_request for a pair that already has a ringing or
\* connected call is rejected: it delivers no second incoming_call.
C8_NoSecondIncomingCall ==
  \A k \in Requests :
    (/\ inbound[k].kind = "video_call_request"
     /\ inbound[k].rcv \in Users
     /\ CallAfter(inbound[k].user, inbound[k].rcv, k - 1).st # "none")
    => EventsOf("incoming_call", k) = {}

\* the events a step adds to the log of outbound events
NewEvents == SubSeq(emitted', Len(emitted) + 1, Len(emitted'))

C9_Step ==
  (/\ Len(inbound') = Len(inbound) + 1
   /\ inbound'[Len(inbound')].kind = "video_call_request"
   /\ ~MapHas(connectedUsers, inbound'[Len(inbound')].rcv))
  => /\ Len(NewEvents) = 1
     /\ NewEvents[1].ev = "call_failed"
     /\ NewEvents[1].to = inbound'[Len(inbound')].sock
     /\ NewEvents[1].req = Len(inbound')
     /\ videoCallRooms' = videoCallRooms

\* a request answered with call_failed is never also announced to anyone
C9_NoIncomingCall ==
  \A k \in Requests :
    EventsOf("call_failed", k) # {} =>
      /\ EventsOf("incoming_call", k) = {}
      /\ Cardinality(EventsOf("call_failed", k)) = 1
      /\ videoCallRooms = {}

\* C9: a video_call_request naming a user who is not registered creates no
\* call session, emits no incoming_call and emits exactly one call_failed,
\* to the caller.
C9_OfflineCallFails == []C9_NoIncomingCall /\ [][C9_Step]_vars

\* a call to an existing user who is not registered was answered call_failed
C9_Witness ==
  \E k \in Requests :
    /\ inbound[k].kind = "video_call_request"
    /\ inbound[k].rcv \in Users \ {inbound[k].user}
    /\ EventsOf("call_failed", k) # {}

\* C10: when a party to a ringing or connected call disconnects, the
\* remaining party, if registered, receives call_ended carrying the
\* disconnecting user's id, by the time the disconnect handler completes.
C10_DisconnectEndsCall ==
  \A k \in Requests :
    (inbound[k].kind = "disconnect" /\ Finished(k)) =>
      \A e \in connectedUsers :
        (/\ CallAfter(inbound[k].user, e.key, k - 1).st # "none"
         /\ \E c \in 1..(k - 1) :
              inbound[c].kind = "connection" /\ inbound[c].sock = e.socketId)
        => \E i \in EventsOf("call_ended", k) :
             emitted[i].to = e.socketId /\ emitted[i].from = inbound[k].user

\* C11: a video_call_answer from B naming caller A is acted on only if a
\* ringing call from A to B exists; with no such call the answer is dropped
\* and A receives no call_answered.
C11_AnswerNeedsRingingCall ==
  \A k \in Requests :
    (/\ inbound[k].kind = "video_call_answer"
     /\ inbound[k].rcv # inbound[k].user
     /\ LET c == CallAfter(inbound[k].rcv, inbound[k].user, k - 1)
        IN ~(c.st = "ringing" /\ c.caller = inbound[k].rcv))
    => EventsOf("call_answered", k) = {}

IsRelay(k) ==
  inbound[k].kind \in {"video_call_offer", "video_call_answer_sdp", "video_call_ice_candidate"}

\* C12: video_call_offer, video_call_answer_sdp and video_call_ice_candidate
\* are forwarded only while a ringing or connected call exists between the
\* sender and the named peer; with no such call the event is dropped and the
\* peer receives nothing.
C12_RelayNeedsSession ==
  \A k \in Requests :
    (/\ IsRelay(k)
     /\ inbound[k].rcv # inbound[k].user
     /\ CallAfter(inbound[k].user, inbound[k].rcv, k - 1).st = "none")
    => \A i \in 1..Len(emitted) : emitted[i].req # k

(* ---------------------------------------------------------------------- *)
(* Presence                                                                *)
(* ---------------------------------------------------------------------- *)
\* the socket was connected before request k arrived
ConnectedBefore(sid, k) ==
  \E c \in 1..(k - 1) : inbound[c].kind = "connection" /\ inbound[c].sock = sid

\* C13: every disconnect completes the whole teardown: once its handler has
\* ended, whatever the persistence update did, the user's entry of that
\* connection is gone and friend_status_change{offline} has been pushed to
\* every friend that stayed registered throughout.
C13_DisconnectTeardown ==
  \A k \in Requests :
    (inbound[k].kind = "disconnect" /\ Finished(k)) =>
      /\ \A e \in connectedUsers : e.socketId # inbound[k].sock
      /\ \A e \in connectedUsers :
           (/\ e.key \in sockets[inbound[k].sock].friends
            /\ ConnectedBefore(e.socketId, k))
           => \E i \in EventsOf("friend_status_change", k) :
                /\ emitted[i].to = e.socketId
                /\ emitted[i].from = inbound[k].user
                /\ emitted[i].arg = "offline"

\* the friend_status_change pushes of a step, as (connection, user, status)
Pushed ==
  {[to |-> NewEvents[i].to, from |-> NewEvents[i].from, arg |-> NewEvents[i].arg] :
     i \in {j \in 1..Len(NewEvents) : NewEvents[j].ev = "friend_status_change"}}

\* one push of (u, status) to the connection of every member of the friend
\* snapshot of connection s that the registry holds at the end of the step
Expected(s, u, status) ==
  {[to |-> e.socketId, from |-> u, arg |-> status] :
     e \in {x \in connectedUsers' : x.key \in sockets'[s].friends}}

FanOutExact(s, u, status) ==
  /\ Pushed = Expected(s, u, status)
  /\ Len(NewEvents) = Cardinality(Expected(s, u, status))

\* the step handles a connection, or ends a status_change or disconnect handler
C14_Step ==
  /\ (Len(inbound') = Len(inbound) + 1 /\ inbound'[Len(inbound')].kind = "connection")
     => FanOutExact(inbound'[Len(inbound')].sock, inbound'[Len(inbound')].user, "online")
  /\ \A t \in tasks \ tasks' :
       t.kind \in {"status_change", "disconnect"}
       => FanOutExact(t.sock, sockets[t.sock].userId, t.arg)

\* C14: on connect (online), on a valid status_change and on disconnect
\* (offline), friend_status_change{userId, status} is pushed to exactly the
\* members of the user's friend snapshot that are registered at that moment,
\* and to no user outside the snapshot.
C14_FanOutTargets == [][C14_Step]_vars

\* what holds of every step: the pushes of a fan-out go to exactly those
\* connections, but a handler whose status update was rejected pushes nothing
FanOutTargetsWhenSent ==
  [][/\ (Len(inbound') = Len(inbound) + 1 /\ inbound'[Len(inbound')].kind = "connection")
        => FanOutExact(inbound'[Len(inbound')].sock, inbound'[Len(inbound')].user, "online")
     /\ \A t \in tasks \ tasks' :
          t.kind \in {"status_change", "disconnect"}
          => NewEvents = <<>> \/ FanOutExact(t.sock, sockets[t.sock].userId, t.arg)]_vars

(* ---------------------------------------------------------------------- *)
(* Ordering on one connection                                              *)
(* ---------------------------------------------------------------------- *)
\* the outbound events request r has caused so far
CausedBy(r) == {i \in 1..Len(emitted) : emitted[i].req = r}

\* the new_message and message_sent events of request r
Delivered(r) == {i \in CausedBy(r) : emitted[i].ev \in {"new_message", "message_sent"}}

\* C15: events from a single connection take effect in arrival order: when
\* a connection sends send_message m1 and then m2, the outbound events for
\* m1 are emitted before those for m2, however long each persistence call
\* takes.
C15_ArrivalOrder ==
  \A r1, r2 \in Requests :
    (/\ r1 < r2
     /\ inbound[r1].kind = "send_message"
     /\ inbound[r2].kind = "send_message"
     /\ inbound[r1].sock = inbound[r2].sock)
    => /\ Delivered(r2) # {} => Finished(r1)
       /\ \A i \in CausedBy(r1), j \in Delivered(r2) : i < j

(* ---------------------------------------------------------------------- *)
(* Persistence before notification                                         *)
(* ---------------------------------------------------------------------- *)
\* every message_sent / new_message in the log names the stored message of
\* its send, every message_read a message whose read mark is stored
C16_Saved ==
  \A i \in 1..Len(emitted) :
    /\ emitted[i].ev \in {"message_sent", "new_message"}
       => /\ emitted[i].arg \in MessageIds
          /\ messages[emitted[i].arg].req = emitted[i].req
    /\ emitted[i].ev = "message_read"
       => /\ emitted[i].arg \in MessageIds
          /\ messages[emitted[i].arg].isRead

\* the step that emits finds the message saved by an earlier step of the
\* same handler; the read mark is saved by the time message_read goes out
C16_Step ==
  \A i \in 1..Len(NewEvents) :
    /\ NewEvents[i].ev \in {"message_sent", "new_message"}
       => /\ MessagesOf(NewEvents[i].req) = {NewEvents[i].arg}
          /\ \E t \in tasks \ tasks' : t.req = NewEvents[i].req /\ t.pc = "populate"
    /\ NewEvents[i].ev = "message_read"
       => /\ NewEvents[i].arg \in MessageIds
          /\ messages'[NewEvents[i].arg].isRead

\* C16: outbound events that depend on persistence are never emitted before
\* that persistence has succeeded: message_sent and new_message only after
\* the message is saved, message_read only after the read mark is saved.
C16_PersistBeforeEmit == []C16_Saved /\ [][C16_Step]_vars

\* a message_sent and a message_read have both been emitted
C16_Witness ==
  /\ \E i \in 1..Len(emitted) : emitted[i].ev = "message_sent"
  /\ \E i \in 1..Len(emitted) : emitted[i].ev = "message_read"

(* ---------------------------------------------------------------------- *)
(* Robustness                                                              *)
(* ---------------------------------------------------------------------- *)
\* C17: no inbound event, whatever its payload (missing payload object,
\* missing field, unknown receiver, invalid status) and whatever the outcome
\* of a persistence call, crashes the server or terminates the connection:
\* the connection it arrived on stays open until it is disconnected.
C17_NoCrash ==
  /\ ~crashed
  /\ \A k \in Requests :
       (/\ inbound[k].kind # "disconnect"
        /\ \A d \in Requests : ~(inbound[d].kind = "disconnect" /\ inbound[d].sock = inbound[k].sock))
       => IsOpen(inbound[k].sock)

(* ---------------------------------------------------------------------- *)
(* Order of the authorization rules                                        *)
(* ---------------------------------------------------------------------- *)
\* the reasons given to the sender with the denials of request r
DenialReasons(r) ==
  IF inbound[r].kind = "send_message"
  THEN {emitted[i].arg : i \in Denials(r)}
  ELSE {responses[i].msg : i \in Denials(r)}

\* C18: the decision for a message send is first-match-wins in the order
\* receiver not found, blocked, not friends: a receiver who is blocked and
\* also not a friend is denied with the blocked reason, not the not-friends
\* reason, and a non-existent receiver is denied as not found.
C18_FirstMatchWins ==
  \A r \in Requests :
    IsSend(r) =>
      /\ inbound[r].rcv \notin Users
         => DenialReasons(r) = {"Receiver not found"}
      /\ (inbound[r].rcv \in Users /\ inbound[r].blocked /\ ~inbound[r].friend)
         => DenialReasons(r) = {"Cannot send message to blocked user"}

(* ---------------------------------------------------------------------- *)
(* Authorization of calls                                                  *)
(* ---------------------------------------------------------------------- *)
\* the step is the arrival of an event of this kind
Arrives(kind) ==
  /\ Len(inbound') = Len(inbound) + 1
  /\ inbound'[Len(inbound')].kind = kind

C19_Step ==
  (/\ Arrives("video_call_request")
   /\ BlockedEitherWay(inbound'[Len(inbound')].user, inbound'[Len(inbound')].rcv))
  => \A i \in 1..Len(NewEvents) : NewEvents[i].ev # "incoming_call"

\* C19: a video_call_request from A to B never delivers incoming_call to B
\* when A has blocked B or B has blocked A.
C19_BlockedCallDenied == [][C19_Step]_vars

\* the event that has just arrived, and the connection it arrived on
Arrived == inbound'[Len(inbound')]

C20_Step ==
  /\ (/\ Arrives("video_call_request")
      /\ Arrived.rcv # Arrived.user
      /\ MapHas(connectedUsers, Arrived.rcv)
      /\ Arrived.rcv \notin sockets[Arrived.sock].friends
      /\ ~BlockedEitherWay(Arrived.user, Arrived.rcv))
     => NewEvents = <<Ev("incoming_call", MapGet(connectedUsers, Arrived.rcv).socketId,
                         Arrived.user, Len(inbound'), "video")>>
  /\ (/\ Arrives("send_message")
      /\ Arrived.rcv \notin sockets[Arrived.sock].friends)
     => /\ Len(NewEvents) = 1
        /\ NewEvents[1].ev = "error"
        /\ NewEvents[1].to = Arrived.sock
        /\ tasks' = tasks
        /\ messages' = messages

\* C20: a video_call_request from A to a registered user B who is not in
\* A's friend set, with no block in either direction, is allowed: B receives
\* incoming_call with callerId = A, while a send_message between the same
\* two users is denied.
C20_CallsNeedNoFriendship == [][C20_Step]_vars

\* A has called a registered user who is not a friend, who received
\* incoming_call from A, and A's send_message to the same user was refused
C20_Witness ==
  \E k, r \in Requests :
    /\ inbound[k].kind = "video_call_request"
    /\ inbound[r].kind = "send_message"
    /\ inbound[r].sock = inbound[k].sock
    /\ inbound[r].rcv = inbound[k].rcv
    /\ inbound[k].rcv \in Users \ {inbound[k].user}
    /\ inbound[k].rcv \notin sockets[inbound[k].sock].friends
    /\ ~BlockedEitherWay(inbound[k].user, inbound[k].rcv)
    /\ \E i \in EventsOf("incoming_call", k) :
         /\ emitted[i].from = inbound[k].user
         /\ SocketsOf(inbound[k].rcv) # {}
         /\ emitted[i].to \in SocketsOf(inbound[k].rcv)
    /\ EventsOf("error", r) # {}
    /\ MessagesOf(r) = {}

(* ---------------------------------------------------------------------- *)
(* Typing indicators                                                       *)
(* ---------------------------------------------------------------------- *)
TypingEventOf(kind) == IF kind = "typing_start" THEN "user_typing" ELSE "user_stopped_typing"

C21_Step ==
  (Arrives("typing_start") \/ Arrives("typing_stop")) =>
    /\ IF MapHas(connectedUsers, Arrived.rcv)
       THEN /\ Len(NewEvents) = 1
            /\ NewEvents[1].ev = TypingEventOf(Arrived.kind)
            /\ NewEvents[1].to = MapGet(connectedUsers, Arrived.rcv).socketId
            /\ NewEvents[1].from = Arrived.user
            /\ NewEvents[1].from = sockets[Arrived.sock].userId
       ELSE NewEvents = <<>>
    /\ connectedUsers' = connectedUsers
    /\ messages' = messages
    /\ <<dbFriends, dbBlocked, dbStatus>>' = <<dbFriends, dbBlocked, dbStatus>>
    /\ tasks' = tasks
    /\ responses' = responses

\* C21: typing_start / typing_stop from A naming B involve no authorization
\* check and no persistence: a registered B receives exactly one user_typing
\* / user_stopped_typing with userId = A, whether or not B is a friend or has
\* blocked A; an unregistered B means nothing is emitted to anyone; the
\* registry and the message store are unchanged in both cases.
C21_TypingIsEphemeral == [][C21_Step]_vars

\* typing reached a registered user who is no friend of the sender, and
\* typing to an unregistered user was dropped
C21_Witness ==
  /\ \E k \in Requests :
       /\ inbound[k].kind = "typing_start"
       /\ inbound[k].rcv \in Users \ sockets[inbound[k].sock].friends
       /\ EventsOf("user_typing", k) # {}
  /\ \E k \in Requests :
       /\ inbound[k].kind \in {"typing_start", "typing_stop"}
       /\ CausedBy(k) = {}

(* ---------------------------------------------------------------------- *)
(* Status values                                                           *)
(* ---------------------------------------------------------------------- *)
FourStatuses == {"online", "offline", "away", "busy"}

C22_Step ==
  /\ (Arrives("status_change") /\ Arrived.arg \notin FourStatuses)
     => /\ NewEvents = <<>>
        /\ tasks' = tasks
        /\ connectedUsers' = connectedUsers
        /\ dbStatus' = dbStatus
  /\ (Arrives("put_status") /\ Arrived.arg \notin FourStatuses)
     => /\ NewEvents = <<>>
        /\ tasks' = tasks
        /\ connectedUsers' = connectedUsers
        /\ dbStatus' = dbStatus

C22_Statuses ==
  /\ \A e \in connectedUsers : e.status \in FourStatuses
  /\ \A u \in Users : dbStatus[u] \in FourStatuses
  /\ \A k \in Requests :
       (inbound[k].kind = "status_change" /\ inbound[k].arg \notin FourStatuses)
       => CausedBy(k) = {} /\ Finished(k)

\* C22: a status_change whose value is not one of online, offline, away,
\* busy is dropped with no effect on registry status, persisted status and
\* friends' connections; the status in every registry entry is always one
\* of those four values.
C22_InvalidStatusDropped == []C22_Statuses /\ [][C22_Step]_vars

\* a registered user with a registered friend sent an invalid status
C22_Witness ==
  \E k \in Requests :
    /\ inbound[k].kind = "status_change"
    /\ inbound[k].arg \notin FourStatuses
    /\ MapHas(connectedUsers, inbound[k].user)
    /\ \E f \in sockets[inbound[k].sock].friends : MapHas(connectedUsers, f)

\* a step that ends the status_change handler t of a user who is registered
C23_Step ==
  \A t \in tasks \ tasks' :
    (t.kind = "status_change" /\ MapHas(connectedUsers, sockets[t.sock].userId))
    => /\ MapHas(connectedUsers', sockets[t.sock].userId)
       /\ MapGet(connectedUsers', sockets[t.sock].userId).status = t.arg
       /\ Pushed = Expected(t.sock, sockets[t.sock].userId, t.arg)

\* C23: for a status_change with a valid status persistence is
\* fire-and-forget: the registry status is updated and friend_status_change
\* is fanned out to the registered friends whether or not the persistence
\* status update succeeds.
C23_StatusFireAndForget == [][C23_Step]_vars

\* C24: a mark_read that is refused because the acting user is not the
\* message's receiver, or because the message does not exist, yields an
\* error event to the acting connection.
C24_RefusedMarkReadReported ==
  \A r \in Requests :
    (inbound[r].kind = "mark_read" /\ ~ByReceiver(r))
    => \E i \in EventsOf("error", r) : emitted[i].to = inbound[r].sock

(* ---------------------------------------------------------------------- *)
(* Calls, seen from the clients                                            *)
(* ---------------------------------------------------------------------- *)
\* every client emit has reached the server and every event its client
Quiescent ==
  \A s \in SocketIds : Unheard(s) = {} /\ Consumed(s) = Len(clients[s].sent)

\* the client behind some connection of user a shows a call with user b
ShowsCall(a, b) ==
  \E s \in SocketsOf(a) : clients[s].activeCall.participant = b

\* C25: video_call_end from A naming B ends the call between A and B
\* whatever its state and pushes exactly one call_ended with senderId = A to
\* B if B is registered; after it, until a new video_call_request, no call
\* exists for the pair on the server or in either client's activeCall.
C25_EndEndsCall ==
  \A k \in Requests :
    (inbound[k].kind = "video_call_end" /\ inbound[k].rcv # inbound[k].user) =>
      LET a == inbound[k].user
          b == inbound[k].rcv
      IN /\ MapHas(connectedUsers, b)
            => /\ Cardinality(EventsOf("call_ended", k)) = 1
               /\ \A i \in EventsOf("call_ended", k) :
                    /\ emitted[i].to = MapGet(connectedUsers, b).socketId
                    /\ emitted[i].from = a
         /\ CallAfter(a, b, k).st = "none"
         /\ videoCallRooms = {}
         /\ (/\ Quiescent
             /\ \A r \in (k + 1)..Len(inbound) :
                  ~(inbound[r].kind = "video_call_request" /\ {inbound[r].user, inbound[r].rcv} = {a, b}))
            => ~ShowsCall(a, b) /\ ~ShowsCall(b, a)

\* request k is an answer of the callee to a call that is ringing
RingingAnswer(k) ==
  /\ inbound[k].kind = "video_call_answer"
  /\ inbound[k].rcv # inbound[k].user
  /\ LET c == CallAfter(inbound[k].rcv, inbound[k].user, k - 1)
     IN c.st = "ringing" /\ c.caller = inbound[k].rcv

\* the answer reaches the registered caller once, decision unchanged
C26_Delivery ==
  \A k \in Requests :
    (RingingAnswer(k) /\ MapHas(connectedUsers, inbound[k].rcv)) =>
      /\ Cardinality(EventsOf("call_answered", k)) = 1
      /\ \A i \in EventsOf("call_answered", k) :
           /\ emitted[i].to = MapGet(connectedUsers, inbound[k].rcv).socketId
           /\ emitted[i].from = inbound[k].user
           /\ emitted[i].arg = inbound[k].arg

\* the caller's client, hearing it, shows a connected call or none
C26_Heard ==
  \A s \in SocketIds :
    (/\ clients'[s].seen # clients[s].seen
     /\ emitted[clients'[s].seen].ev = "call_answered"
     /\ RingingAnswer(emitted[clients'[s].seen].req))
    => IF emitted[clients'[s].seen].arg = "accepted"
       THEN clients'[s].activeCall.status = "connected"
       ELSE clients'[s].activeCall = NoActiveCall

\* after the rejection no later acceptance is passed on to the caller unless
\* the caller has requested a call again in between
C26_NoRevival ==
  \A k, k2 \in Requests :
    (/\ RingingAnswer(k)
     /\ inbound[k].arg = "rejected"
     /\ k < k2
     /\ inbound[k2].kind = "video_call_answer"
     /\ inbound[k2].user = inbound[k].user
     /\ inbound[k2].rcv = inbound[k].rcv
     /\ inbound[k2].arg = "accepted"
     /\ \A r \in (k + 1)..(k2 - 1) :
          ~(/\ inbound[r].kind = "video_call_request"
            /\ inbound[r].user = inbound[k].rcv
            /\ inbound[r].rcv = inbound[k].user))
    => EventsOf("call_answered", k2) = {}

\* C26: for a ringing call from A to B, B's video_call_answer delivers to A
\* exactly one call_answered carrying B's decision unchanged; after
\* 'accepted' the caller's activeCall is connected, after 'rejected' it is
\* null and the call cannot become connected without a new video_call_request.
C26_AnswerDecidesCall == []C26_Delivery /\ [][C26_Heard]_vars /\ []C26_NoRevival

(* ---------------------------------------------------------------------- *)
(* The friend set of an open connection                                    *)
(* ---------------------------------------------------------------------- *)
\* a connection takes the persisted friend set when it opens and keeps it
\* while it stays open; send_message is refused as not-friends exactly when
\* the receiver is outside that set; a status_change that pushes at all
\* pushes to the registered members of that set
C27_Step ==
  /\ Arrives("connection")
     => sockets'[Arrived.sock].friends = dbFriends[Arrived.user]
  /\ \A s \in SocketIds :
       (IsOpen(s) /\ sockets'[s].st = "open") => sockets'[s].friends = sockets[s].friends
  /\ (Arrives("send_message") /\ Arrived.rcv \in Users)
     => IF Arrived.rcv \in sockets[Arrived.sock].friends
        THEN /\ NewEvents = <<>>
             /\ \E t \in tasks' \ tasks : t.req = Len(inbound') /\ t.kind = "send_message"
        ELSE /\ Len(NewEvents) = 1
             /\ NewEvents[1].ev = "error"
             /\ NewEvents[1].to = Arrived.sock
             /\ NewEvents[1].arg = "Can only send messages to friends"
             /\ tasks' = tasks
  /\ \A t \in tasks \ tasks' :
       t.kind = "status_change"
       => NewEvents = <<>> \/ FanOutExact(t.sock, sockets[t.sock].userId, t.arg)

\* C27: authorization on an open connection uses the friend set loaded when
\* the connection was opened: accepting a friend request, removing a friend
\* or blocking a user over HTTP while the connection is open changes neither
\* the allow/deny outcome of send_message nor the presence fan-out targets of
\* that connection.
C27_FriendSnapshot == [][C27_Step]_vars

\* a friend was removed over HTTP while the connection was open, and a later
\* send_message to the removed friend on that connection was still allowed
C27_Witness ==
  \E h, k \in Requests :
    /\ h < k
    /\ inbound[h].kind = "remove_friend"
    /\ inbound[k].kind = "send_message"
    /\ inbound[k].user = inbound[h].user
    /\ inbound[k].rcv = inbound[h].rcv
    /\ ConnectedBefore(inbound[k].sock, h)
    /\ inbound[k].rcv \notin dbFriends[inbound[k].user]
    /\ inbound[k].rcv \in sockets[inbound[k].sock].friends
    /\ \E t \in tasks : t.req = k

(* ---------------------------------------------------------------------- *)
(* Opaque relays                                                           *)
(* ---------------------------------------------------------------------- *)
\* the event a relay request is forwarded as
RelayedAs(kind) ==
  IF kind = "video_call_offer" THEN "call_offer"
  ELSE IF kind = "video_call_answer_sdp" THEN "call_answer_sdp"
  ELSE "ice_candidate"

\* the arrival of a relay request emits one event to the registered peer,
\* with the payload and the sender's id, or nothing, and changes no state
C28_Step ==
  (\/ Arrives("video_call_offer")
   \/ Arrives("video_call_answer_sdp")
   \/ Arrives("video_call_ice_candidate"))
  => /\ IF MapHas(connectedUsers, Arrived.rcv)
        THEN /\ Len(NewEvents) = 1
             /\ NewEvents[1].ev = RelayedAs(Arrived.kind)
             /\ NewEvents[1].to = MapGet(connectedUsers, Arrived.rcv).socketId
             /\ NewEvents[1].from = sockets[Arrived.sock].userId
             /\ NewEvents[1].arg = Arrived.arg
             /\ NewEvents[1].req = Len(inbound')
        ELSE NewEvents = <<>>
     /\ UNCHANGED <<sockets, connectedUsers, tasks, responses, dbVars>>

\* no relay request ever has more than one event to its name, and that
\* event carries the payload of the request
C28_Log ==
  \A k \in Requests :
    IsRelay(k) =>
      /\ Cardinality(CausedBy(k)) <= 1
      /\ \A i \in CausedBy(k) :
           /\ emitted[i].ev = RelayedAs(inbound[k].kind)
           /\ emitted[i].arg = inbound[k].arg
           /\ emitted[i].from = inbound[k].user

\* C28: call_offer, call_answer_sdp and ice_candidate are opaque relays: a
\* registered peer receives exactly one event whose payload equals the
\* payload sent and whose senderId is the sender's userId; when the peer is
\* not registered nothing is emitted to anyone, the sender included.
C28_OpaqueRelay == []C28_Log /\ [][C28_Step]_vars

\* two relays with different payloads: one forwarded to a registered peer,
\* one naming a peer that is not registered and dropped
C28_Witness ==
  \E k, d \in Requests :
    /\ IsRelay(k) /\ IsRelay(d)
    /\ inbound[k].arg # inbound[d].arg
    /\ inbound[k].rcv # inbound[k].user
    /\ \E i \in CausedBy(k) : emitted[i].arg = inbound[k].arg
    /\ ~MapHas(connectedUsers, inbound[d].rcv)
    /\ \A c \in Requests : inbound[c].kind = "connection" => inbound[c].user # inbound[d].rcv
    /\ CausedBy(d) = {}

(* ---------------------------------------------------------------------- *)
(* Presence at quiescence                                                  *)
(* ---------------------------------------------------------------------- *)
\* the requests of user u received so far
RequestsOf(u) == {k \in Requests : inbound[k].user = u}

\* f connected once, before anything u did, and has not disconnected
StayedRegistered(f, u) ==
  /\ MapHas(connectedUsers, f)
  /\ Cardinality(RequestsOf(f)) >= 1
  /\ \A k \in RequestsOf(f) : inbound[k].kind = "connection" => \A j \in RequestsOf(f) : k <= j
  /\ \A k \in RequestsOf(f) : inbound[k].kind # "disconnect"
  /\ Cardinality({k \in RequestsOf(f) : inbound[k].kind = "connection"}) = 1
  /\ \A k \in RequestsOf(f), j \in RequestsOf(u) : inbound[k].kind = "connection" => k < j

\* the friend_status_change events about u pushed to the connection of f
PresenceSeen(f, u) ==
  {i \in 1..Len(emitted) :
     /\ emitted[i].ev = "friend_status_change"
     /\ emitted[i].from = u
     /\ emitted[i].to = MapGet(connectedUsers, f).socketId}

\* the status of u as the registry has it
PresenceOf(u) ==
  IF MapHas(connectedUsers, u) THEN MapGet(connectedUsers, u).status ELSE "offline"

\* C29: presence is consistent at quiescence: once no handler is in flight,
\* for every user U and every friend F of U that stayed registered
\* throughout, the last friend_status_change about U delivered to F equals
\* U's registry status if U is registered and 'offline' if U is not.
C29_PresenceAtQuiescence ==
  tasks = {} =>
    \A u \in Users : \A f \in dbFriends[u] :
      (StayedRegistered(f, u) /\ PresenceSeen(f, u) # {})
      => \E i \in PresenceSeen(f, u) :
           /\ \A j \in PresenceSeen(f, u) : j <= i
           /\ emitted[i].arg = PresenceOf(u)

(* ---------------------------------------------------------------------- *)
(* After the last disconnect                                               *)
(* ---------------------------------------------------------------------- *)
\* u has connected, none of its connections is open any more and no handler
\* of any of its connections is still suspended
GoneForGood(u) ==
  /\ \E k \in RequestsOf(u) : inbound[k].kind = "connection"
  /\ \A s \in SocketIds : sockets[s].userId = u => ~IsOpen(s)
  /\ \A t \in tasks : sockets[t.sock].userId # u

\* C30: after a user's last connection has disconnected and every handler
\* that was in flight for that user (a status_change suspended on its
\* persistence update included) has completed, the user's persisted status
\* is 'offline' and the registry has no entry for the user.
C30_OfflineAfterLastDisconnect ==
  \A u \in Users :
    GoneForGood(u) => dbStatus[u] = "offline" /\ ~MapHas(connectedUsers, u)

(* ---------------------------------------------------------------------- *)
(* Routing and identity of outbound events                                 *)
(* ---------------------------------------------------------------------- *)
PresenceKinds == {"connection", "status_change", "disconnect"}

\* the user request k addresses: the named user, or for mark_read the sender
\* of the named message
TargetOf(k) ==
  IF inbound'[k].kind = "mark_read"
  THEN IF inbound'[k].arg \in MessageIds THEN messages[inbound'[k].arg].sender ELSE NoUser
  ELSE inbound'[k].rcv

\* every event a step emits for a request that is not a presence event goes
\* to the requesting connection or to the connection registered for the user
\* addressed, reaches no third user, and carries the requester's userId
C31_Step ==
  \A i \in 1..Len(NewEvents) :
    LET e == NewEvents[i]
        k == e.req
    IN /\ k \in 1..Len(inbound')
       /\ inbound'[k].kind \notin PresenceKinds
          => /\ e.from = inbound'[k].user
             /\ e.from = sockets[inbound'[k].sock].userId
             /\ \/ e.to = inbound'[k].sock
                \/ \E x \in connectedUsers : x.key = TargetOf(k) /\ x.socketId = e.to
             /\ sockets[e.to].userId \in {inbound'[k].user, TargetOf(k)}

C32_ErrorMeansNotStored ==
  \A r \in Requests :
    (inbound[r].kind = "send_message" /\ EventsOf("error", r) # {})
    => /\ MessagesOf(r) = {}
       /\ EventsOf("new_message", r) = {}

(* ---------------------------------------------------------------------- *)
(* An unanswered outgoing call                                             *)
(* ---------------------------------------------------------------------- *)
\* the client behind s shows an outgoing call that is still 'calling', to a
\* user who is not registered (was offline, or has disconnected)
CallingNobody(s) ==
  /\ IsOpen(s)
  /\ clients[s].activeCall.status = "calling"
  /\ ~MapHas(connectedUsers, clients[s].activeCall.participant)

\* C33: after startCall for a receiver who is offline (the server answers
\* call_failed), or whose callee never answers and then disconnects, the
\* caller's activeCall eventually returns to null without the user ending
\* the call by hand.
C33_CallingEnds ==
  \A s \in SocketIds :
    CallingNobody(s) ~> (clients[s].activeCall = NoActiveCall \/ ~IsOpen(s))

(* ---------------------------------------------------------------------- *)
(* The socket path and the HTTP path                                       *)
(* ---------------------------------------------------------------------- *)
\* the connection holds the sender's friends and blocked users as persisted:
\* both paths decide on the same sender state
SameSenderState(s) ==
  /\ sockets[s].friends = dbFriends[sockets[s].userId]
  /\ sockets[s].blocked = dbBlocked[sockets[s].userId]

\* a send_message arriving on such a connection is refused exactly when
\* POST /api/messages would refuse it; mark_read and PUT .../read accept
\* exactly the pairs of MayMarkRead
C34_Step ==
  /\ (Arrives("send_message") /\ SameSenderState(Arrived.sock))
     => ((\E i \in 1..Len(NewEvents) : NewEvents[i].ev = "error")
           <=> HttpDenies(Arrived.user, Arrived.rcv))
  /\ Arrives("mark_read")
     => ((tasks' # tasks) <=> MayMarkRead(Arrived.user, Arrived.arg))
  /\ Arrives("put_read")
     => ((responses'[Len(responses')].code \in {"200", "500"})
           <=> MayMarkRead(Arrived.user, Arrived.arg))

\* C34: the socket send_message handler and POST /api/messages make the same
\* allow/deny decision for the same sender state (friend set, blocked set)
\* and the same receiver; the socket mark_read handler and
\* PUT /api/messages/:messageId/read accept exactly the same (actor, message)
\* pairs.
C34_SamePolicy == [][C34_Step]_vars

(* ---------------------------------------------------------------------- *)
(* Persisted friendships, blocks and friend requests                       *)
(* ---------------------------------------------------------------------- *)
\* C35: friendship is symmetric in every persisted state: after any sequence
\* of send-request, accept, reject, remove-friend, block and unblock
\* operations, each run to completion, one whose second save fails included,
\* B is in A's friends if and only if A is in B's friends.
C35_FriendshipSymmetric ==
  \A a, b \in Users : b \in dbFriends[a] <=> a \in dbFriends[b]

\* C36: a blocked user is never a friend: after any sequence of send-request,
\* accept, remove-friend, block and unblock operations no user B is at once
\* in A's blockedUsers and in A's friends.
C36_BlockedNeverFriend ==
  \A a \in Users : dbBlocked[a] \cap dbFriends[a] = {}

\* the pending requests from s among the friend requests of t
PendingFrom(s, t) ==
  {i \in 1..Len(dbRequests[t]) :
     dbRequests[t][i].from = s /\ dbRequests[t][i].status = "pending"}

\* C37: for every pair of users (S, T), T's friendRequests holds at most one
\* pending request from S after any interleaving of send-friend-request
\* calls, and no pending request from S while S and T are friends.
C37_OnePendingRequest ==
  \A s, t \in Users :
    /\ Cardinality(PendingFrom(s, t)) <= 1
    /\ (s \in dbFriends[t] /\ t \in dbFriends[s]) => PendingFrom(s, t) = {}

(* ---------------------------------------------------------------------- *)
(* Reactions                                                               *)
(* ---------------------------------------------------------------------- *)
\* the reactions of user u on message m
ReactionsBy(m, u) ==
  {i \in 1..Len(messages[m].reactions) : messages[m].reactions[i].user = u}

\* C38: a message carries at most one reaction per user: after any
\* interleaving of add-reaction and remove-reaction requests the reactions
\* list of a message holds at most one entry for each user.
C38_OneReactionPerUser ==
  \A m \in MessageIds : \A u \in Users : Cardinality(ReactionsBy(m, u)) <= 1

(* ---------------------------------------------------------------------- *)
(* Read state                                                              *)
(* ---------------------------------------------------------------------- *)
\* two stored messages from A to B, both unread
InitInbox ==
  /\ sockets = [s \in SocketIds |-> FreeSocket]
  /\ connectedUsers = {}
  /\ videoCallRooms = {}
  /\ crashed = FALSE
  /\ clients = [s \in SocketIds |-> NewClient]
  /\ dbFriends = InitFriends
  /\ dbBlocked = [u \in Users |-> {}]
  /\ dbRequests = InitRequests
  /\ dbStatus = [u \in Users |-> "offline"]
  /\ messages = InitMessages \o InitMessages
  /\ tasks = {}
  /\ inbound = <<>>
  /\ emitted = <<>>
  /\ responses = <<>>

NextReadState ==
  \/ \E u \in {"A", "B"} : Connect(u)
  \/ \E s \in SocketIds, m \in MessageIds : MarkRead(s, m)
  \/ MarkReadSaveStep
  \/ \E m \in MessageIds, ok \in BOOLEAN : HttpMarkRead("B", m, ok)
  \/ \E m \in MessageIds : EditMessage("A", m, TRUE)
  \/ \E u \in {"A", "B"} : DeleteMessage(u, 1, TRUE)
  \/ AddReaction("B", 1, "thumb")
  \/ AddReactionSaveStep

SpecReadState == InitInbox /\ [][NextReadState]_vars

\* isRead is true exactly when readAt is set
C39_ReadAt ==
  \A m \in MessageIds : messages[m].isRead <=> messages[m].readAt # NoDate

\* the step completes a mark_read of message m: the socket handler's save
\* resolves, or the HTTP route answers 200
MarksRead(m) ==
  \/ \E t \in tasks \ tasks' : t.kind = "mark_read" /\ t.arg = m
  \/ /\ Arrives("put_read")
     /\ inbound'[Len(inbound')].arg = m
     /\ responses'[Len(responses')].code = "200"

C39_Step ==
  \A m \in MessageIds :
    /\ messages[m].isRead => messages'[m].isRead
    /\ (~messages[m].isRead /\ messages'[m].isRead) =>
         /\ MarksRead(m)
         /\ UnreadIn(messages', messages[m].receiver)
              = UnreadIn(messages, messages[m].receiver) - 1
    /\ (messages[m].isRead /\ MarksRead(m)) =>
         \A u \in Users : UnreadIn(messages', u) = UnreadIn(messages, u)

\* C39: read state is monotonic and idempotent: no operation (repeated
\* mark_read, edit, reaction, delete-for-user) sets isRead back to false,
\* isRead is true exactly when readAt is set, the first mark_read of a
\* message lowers the receiver's unread count by exactly one and a later
\* mark_read of the same message leaves every unread count unchanged.
C39_ReadMonotonic == []C39_ReadAt /\ [][C39_Step]_vars

\* a message was marked read over HTTP, then edited by its sender, then
\* marked read again over the socket; the other message is still unread
C39_Witness ==
  \E k1, k2, k3 \in 1..Len(inbound) :
    /\ k1 < k2 /\ k2 < k3
    /\ inbound[k1].kind = "put_read"
    /\ \E i \in 1..Len(responses) : responses[i].req = k1 /\ responses[i].code = "200"
    /\ inbound[k2].kind = "edit_message" /\ inbound[k2].arg = inbound[k1].arg
    /\ \E i \in 1..Len(responses) : responses[i].req = k2 /\ responses[i].code = "200"
    /\ inbound[k3].kind = "mark_read" /\ inbound[k3].arg = inbound[k1].arg
    /\ inbound[k3].user = "B"
    /\ Finished(k3)
    /\ messages[inbound[k1].arg].isRead
    /\ messages[inbound[k1].arg].isEdited
    /\ getUnreadCount("B") = 1

====
